---- MODULE Spec2Model ----
(***************************************************************************)
(* inkBoard template engine: TemplateLoader.construct_template (compile),  *)
(* TemplateElement.construct_element (instantiate) and the tree walk of    *)
(* DashboardLoader / TemplateParser that rewrites a template body.         *)
(*                                                                         *)
(* YAML nodes are records:                                                 *)
(*   [kind |-> "scalar", value |-> s]            plain ScalarNode          *)
(*   [kind |-> "var",    name  |-> v]            ScalarNode tagged !tmp_var *)
(*   [kind |-> "extend", name  |-> v]            sequence item tagged      *)
(*                                               !tmp_extend               *)
(*   [kind |-> "map", entries |-> <<e1, ...>>]   MappingNode; an entry is  *)
(*       [ext |-> BOOLEAN, key |-> s, val |-> node]; for ext = TRUE the    *)
(*       key node carries the !tmp_extend tag and val is the scalar node   *)
(*       holding the variable name                                         *)
(*   [kind |-> "seq", items |-> <<n1, ...>>]     SequenceNode              *)
(* Python values are records:                                              *)
(*   [kind |-> "str",  value |-> s]                                        *)
(*   [kind |-> "dict", items |-> [key -> value]]                           *)
(*   [kind |-> "list", items |-> <<value, ...>>]                           *)
(*   [kind |-> "ref",  root |-> "default" | "binding", name |-> v]         *)
(*       the very object stored under v in the template's optional         *)
(*       variables, or in the caller's binding map (object identity)       *)
(*   [kind |-> "raise", exc |-> e]               an exception propagating  *)
(***************************************************************************)
EXTENDS Naturals, Sequences, FiniteSets, TLC

VARIABLES
    templates,  \* TemplateElement._templates: name -> TemplateElement
    lastLoad,   \* the last construct_template call: document and outcome
    variables,  \* the binding map object the caller passed to the last call
    lastCall,   \* the last construct_element call: inputs and outcome
    held,       \* the call before it, when it had the same template and
                \* was given the same binding map object
    config_error, \* _config_error of DashboardLoader and of TemplateParser
    lastNode,   \* the last construct_dashboard_node call on a document node
    DEBUGGING,  \* inkBoard.constants.DEBUGGING, fixed when the process starts
    CORE,       \* the class attributes of _CORE: which slots are set, to what
    lastCore,   \* the last call on CORE: operation, arguments and outcome
    tasks,      \* the asyncio tasks: loop, reload shield, state
    substitutions, \* BaseSafeLoader._substitutions, Unset before the first
                \* document with a substitutions key
    lastConfig  \* the last yaml.load with MainConfigLoader: document,
                \* construction order and outcome

\* the variables of the core object, the tasks and the configuration loader
processVars == <<CORE, lastCore, tasks, substitutions, lastConfig>>

vars == <<templates, lastLoad, variables, lastCall, held, config_error,
          lastNode, DEBUGGING, processVars>>

-----------------------------------------------------------------------------
(* Bounds of the explored inputs *)

MaxLen == 3        \* entries of a body mapping / items of a body sequence
MaxDefaults == 1   \* entries under a template's "defaults" key

-----------------------------------------------------------------------------
(* Constructors of nodes and values *)

ScalarNode(s) == [kind |-> "scalar", value |-> s]
VarNode(v) == [kind |-> "var", name |-> v]
ExtendNode(v) == [kind |-> "extend", name |-> v]
MappingNode(es) == [kind |-> "map", entries |-> es]
SequenceNode(ns) == [kind |-> "seq", items |-> ns]
Entry(k, n) == [ext |-> FALSE, key |-> k, val |-> n]
ExtendEntry(v) == [ext |-> TRUE, key |-> "", val |-> ScalarNode(v)]

Str(s) == [kind |-> "str", value |-> s]
Dict(f) == [kind |-> "dict", items |-> f]
List(q) == [kind |-> "list", items |-> q]
Ref(r, v) == [kind |-> "ref", root |-> r, name |-> v]
Raise(e) == [kind |-> "raise", exc |-> e]
EmptyMap == [k \in {} |-> Str("")]

-----------------------------------------------------------------------------
(* The explored universe *)

TemplateNames == {"t1"}
Vars == {"v", "w"}
UnusedVar == "u"

\* values a caller binds or a template gives as default
StrValue == Str("S")
MapValue == Dict([k |-> Str("B"), j |-> Str("C")])
MapValue2 == Dict([j |-> Str("E")])
SeqValue == List(<<Str("p"), Str("q")>>)
Values == {StrValue, MapValue, MapValue2, SeqValue}
DefaultMap == Dict([m |-> Str("D")])
DefaultSeq == List(<<Str("x")>>)
DefaultValues == {StrValue, DefaultMap, DefaultSeq}

\* sequences of length 1..n of distinct members of S
RECURSIVE DistinctSeqs(_, _)
DistinctSeqs(S, n) ==
    IF n = 0 THEN {<<>>}
    ELSE LET shorter == DistinctSeqs(S, n - 1)
         IN  shorter \cup
             { Append(q, x) : <<q, x>> \in
                 { p \in shorter \X S :
                     /\ Len(p[1]) = n - 1
                     /\ \A i \in 1..Len(p[1]) : p[1][i] # p[2] } }

MapAlphabet ==
    { Entry("k", ScalarNode("A")),
      ExtendEntry("v"),
      Entry("j", VarNode("v")),
      Entry("i", VarNode("w")) }

SeqAlphabet ==
    { ScalarNode("x"),
      ScalarNode("y"),
      ExtendNode("w"),
      MappingNode(<<Entry("k", ScalarNode("A")), ExtendEntry("w")>>) }

Bodies ==
    { MappingNode(es) : es \in DistinctSeqs(MapAlphabet, MaxLen) \ {<<>>} }
    \cup { SequenceNode(ns) : ns \in DistinctSeqs(SeqAlphabet, MaxLen) \ {<<>>} }

DefaultsMaps ==
    UNION { [D -> DefaultValues] :
              D \in { X \in SUBSET (Vars \cup {UnusedVar}) : Cardinality(X) <= MaxDefaults } }

\* a template document: the keys of its top-level mapping, the node under
\* "element" and the constructed mapping under "defaults"
NoBody == ScalarNode("")
Docs ==
    { [keys |-> K, element |-> b, defaults |-> d] :
        K \in SUBSET {"defaults", "some_key"},
        b \in {NoBody},
        d \in DefaultsMaps }
    \cup
    { [keys |-> K \cup {"element"}, element |-> b, defaults |-> d] :
        K \in SUBSET {"defaults", "some_key"},
        b \in Bodies,
        d \in DefaultsMaps }

\* without a "defaults" key there are no defaults
WellFormedDoc(doc) ==
    ("defaults" \notin doc.keys) => (doc.defaults = EmptyMap)

\* the binding maps a caller passes; w is given one value of each shape
BindingMaps ==
    { f \in UNION { [D -> Values] : D \in SUBSET Vars } :
        "w" \in DOMAIN f => f["w"] # MapValue2 }

-----------------------------------------------------------------------------
(* TemplateLoader: compiling a template document *)

allowed_entries == {"defaults", "element"}

\* The walk of construct_document over the template node: every tagged node
\* it hands to template_variable_constructor / template_variable_extender.
\* parent is the kind of the enclosing node; key and value are the .value of
\* the key node and of the value node the callback receives.
RECURSIVE TagSites(_)
TagSites(node) ==
    CASE node.kind = "var" ->
            {[tag |-> "var", parent |-> "", key |-> "", value |-> node.name]}
      [] node.kind = "map" ->
            UNION { IF node.entries[i].ext
                    THEN {[tag |-> "extend", parent |-> "map",
                           key |-> node.entries[i].key,
                           value |-> node.entries[i].val.value]}
                    ELSE TagSites(node.entries[i].val)
                    : i \in 1..Len(node.entries) }
      [] node.kind = "seq" ->
            UNION { IF node.items[i].kind = "extend"
                    THEN {[tag |-> "extend", parent |-> "seq",
                           key |-> node.items[i].name, value |-> ""]}
                    ELSE TagSites(node.items[i])
                    : i \in 1..Len(node.items) }
      [] OTHER -> {}

\* self._variables after the walk
loader_variables(doc) ==
    { s.value : s \in { x \in TagSites(doc.element) : x.tag = "var" } }

\* self._map_extends after the walk
map_extends(doc) ==
    { s.value : s \in { x \in TagSites(doc.element) :
                          x.tag = "extend" /\ x.parent = "map" } }

\* self._sequence_extends after the walk
sequence_extends(doc) ==
    { s.key : s \in { x \in TagSites(doc.element) :
                        x.tag = "extend" /\ x.parent # "map" } }

\* BadDefaults with the check of sequence defaults left out
BadDefaults_maponly(doc) ==
    { x \in DOMAIN doc.defaults :
        x \in map_extends(doc) /\ doc.defaults[x].kind # "dict" }

\* the defaults whose shape does not fit the splice the variable is used for
BadDefaults(doc) ==
    { x \in DOMAIN doc.defaults :
        IF x \in map_extends(doc) THEN doc.defaults[x].kind # "dict"
        ELSE IF x \in sequence_extends(doc) THEN doc.defaults[x].kind # "list"
        ELSE FALSE }

\* optionals keeping every entry of the defaults
optionals_all(doc) == [x \in DOMAIN doc.defaults |-> doc.defaults[x]]

\* the optionals dict built by the loop over the defaults
optionals(doc) ==
    LET kept == { x \in DOMAIN doc.defaults :
                    \/ x \in map_extends(doc) /\ doc.defaults[x].kind = "dict"
                    \/ x \notin map_extends(doc) /\ x \in sequence_extends(doc)
                         /\ doc.defaults[x].kind = "list"
                    \/ x \in loader_variables(doc) }
    IN  [x \in kept |-> doc.defaults[x]]

\* required when no variable is recorded as required
required_none(doc) == {}

\* vars after the loop: the variables no default was given for
required(doc) == loader_variables(doc) \ DOMAIN doc.defaults

\* defaults that name no variable of the template (logged as a warning)
UnusedDefaults(doc) ==
    DOMAIN doc.defaults
      \ (loader_variables(doc) \cup map_extends(doc) \cup sequence_extends(doc))

TemplateElement(name, doc) ==
    [ template |-> name,
      template_node |-> doc.element,
      required_variables |-> required(doc),
      optional_variables |-> optionals(doc),
      sequence_variables |-> sequence_extends(doc),
      mapping_variables |-> map_extends(doc) ]

\* LoadErrors with the check of the entry names left out
LoadErrors_no_entry_check(doc) ==
    \/ "element" \notin doc.keys
    \/ map_extends(doc) \cap sequence_extends(doc) # {}
    \/ BadDefaults(doc) # {}

\* the errors flag at the end of construct_template
LoadErrors(doc) ==
    \/ "element" \notin doc.keys
    \/ doc.keys \ allowed_entries # {}
    \/ map_extends(doc) \cap sequence_extends(doc) # {}
    \/ BadDefaults(doc) # {}

construct_template(name, doc) ==
    IF LoadErrors(doc)
    THEN [status |-> "TemplateLoadError"]
    ELSE [status |-> "ok", element |-> TemplateElement(name, doc)]

\* Register keeping the definition a name already has
Register_keep_first(reg, name, t) ==
    [n \in DOMAIN reg \cup {name} |-> IF n \in DOMAIN reg THEN reg[n] ELSE t]

\* TemplateElement.__init__: self._templates[self._template] = self
Register(reg, name, t) ==
    [n \in DOMAIN reg \cup {name} |-> IF n = name THEN t ELSE reg[n]]

-----------------------------------------------------------------------------
(* DashboardLoader / TemplateParser: rewriting a template body *)

\* PythonScreenStackManager.tools.update_nested_dict(update_dict, old_dict):
\* old_dict updated with update_dict, nested mappings merged key by key
RECURSIVE update_nested_dict(_, _)
update_nested_dict(update_dict, old_dict) ==
    [k \in DOMAIN old_dict \cup DOMAIN update_dict |->
        IF k \notin DOMAIN update_dict THEN old_dict[k]
        ELSE IF k \in DOMAIN old_dict
                /\ update_dict[k].kind = "dict" /\ old_dict[k].kind = "dict"
             THEN Dict(update_nested_dict(update_dict[k].items, old_dict[k].items))
             ELSE update_dict[k]]

\* template_vars = self._optional_variables | variables: a new dict whose
\* values are the objects of the two operands, the right operand winning
TemplateVars(t, variables_) ==
    [n \in DOMAIN t.optional_variables \cup DOMAIN variables_ |->
        IF n \in DOMAIN variables_ THEN Ref("binding", n) ELSE Ref("default", n)]

\* the object a reference denotes
Object(ctx, ref) ==
    IF ref.root = "binding" THEN ctx.bind[ref.name] ELSE ctx.opt[ref.name]

\* TemplateParser.template_variable_constructor: self._variables[variable.value]
\* (a str is immutable, so it is given by value; a dict or list is the stored
\* object itself)
template_variable_constructor(ctx, variable) ==
    IF variable.name \notin DOMAIN ctx.tv THEN Raise("KeyError")
    ELSE LET o == Object(ctx, ctx.tv[variable.name])
         IN  IF o.kind = "str" THEN o ELSE ctx.tv[variable.name]

\* TemplateParser.template_variable_extender
template_variable_extender(ctx, parent_kind, key_value, value_value) ==
    IF parent_kind = "map"
    THEN IF value_value \in DOMAIN ctx.tv
         THEN Object(ctx, ctx.tv[value_value]) ELSE Dict(EmptyMap)
    ELSE IF key_value \in DOMAIN ctx.tv
         THEN Object(ctx, ctx.tv[key_value]) ELSE List(<<>>)

\* ExtendMapping with the arguments of update_nested_dict exchanged
ExtendMapping_swapped(ctx, d, entry) ==
    LET val == template_variable_extender(ctx, "map", entry.key, entry.val.value)
    IN  IF val.kind = "dict" THEN Dict(update_nested_dict(d, val.items))
        ELSE Raise("AttributeError")

\* construct_mapping, the branch of an entry whose key carries an extend tag
ExtendMapping(ctx, d, entry) ==
    LET val == template_variable_extender(ctx, "map", entry.key, entry.val.value)
    IN  IF val.kind = "dict" THEN Dict(update_nested_dict(val.items, d))
        ELSE Raise("AttributeError")

\* ExtendSequence putting the spliced items in front of the list
ExtendSequence_prepend(ctx, seq_vals, item) ==
    LET val == template_variable_extender(ctx, "seq", item.name, "")
    IN  IF val.kind = "list" THEN List(val.items \o seq_vals)
        ELSE Raise("TypeError")

\* construct_sequence, the branch of an item that carries an extend tag
ExtendSequence(ctx, seq_vals, item) ==
    LET val == template_variable_extender(ctx, "seq", item.name, "")
    IN  IF val.kind = "list" THEN List(seq_vals \o val.items)
        ELSE Raise("TypeError")

\* SetItem as d.setdefault(key_node.value, val)
SetItem_setdefault(d, k, val) ==
    [x \in DOMAIN d \cup {k} |-> IF x \in DOMAIN d THEN d[x] ELSE val]

\* d[key_node.value] = val
SetItem(d, k, val) ==
    [x \in DOMAIN d \cup {k} |-> IF x = k THEN val ELSE d[x]]

\* the outcome of a walk: the constructed value (or the exception that
\* propagates) and the log of what the walk did on its way
Out(val, log) == [val |-> val, log |-> log]

\* one entry of the log: a validator applied ("validate"), a constructor
\* invoked ("construct") or an error logged and _config_error set on the
\* loader's class ("error")
Event(ev, ctx, depth, validator, cls, type, outcome) ==
    [ev |-> ev, loader |-> ctx.loader, depth |-> depth, validator |-> validator,
     cls |-> cls, type |-> type, outcome |-> outcome]

-----------------------------------------------------------------------------
(* The collaborators of the Object Constructor *)

\* elt_type.split(":")
split(elt_type) ==
    CASE elt_type = "custom:Gauge" -> <<"custom", "Gauge">>
      [] elt_type = "custom:Dial" -> <<"custom", "Dial">>
      [] elt_type = "custom:Nope" -> <<"custom", "Nope">>
      [] elt_type = "Dial:Dial" -> <<"Dial", "Dial">>
      [] elt_type = "unknown:Widget" -> <<"unknown", "Widget">>
      [] elt_type = "template:t1" -> <<"template", "t1">>
      [] elt_type = "template:t9" -> <<"template", "t9">>
      [] elt_type = "a:b:c" -> <<"a", "b", "c">>
      [] OTHER -> <<elt_type>>

\* a class attribute that is not set
Unset == [kind |-> "unset"]

\* the keys of default_elements and of the table behind the "custom" parser
default_elements == {"Button", "Popup"}
custom_elements == {"Gauge", "Dial"}

\* the element classes a parser function knows: the parser of the custom
\* elements folder and a parser an integration registers
ParserElements ==
    [custom_parser |-> custom_elements, integration_parser |-> {"Dial"}]

\* parser(elt_type_str, idf): the kind of object the parser gives, or the
\* KeyError of its lookup
CallParser(ctx, parser, elt_type_str) ==
    IF parser = "template_parser"
    THEN IF elt_type_str \in DOMAIN ctx.templates THEN "template" ELSE "KeyError"
    ELSE IF elt_type_str \in ParserElements[parser] THEN "class" ELSE "KeyError"

\* the classes a validator accepts: validate_general any element class, the
\* caller-configured validator of the explored runs popups and gauges only
Accepts(validator, cls) ==
    IF validator = "validate_general"
    THEN cls \in default_elements \cup custom_elements
    ELSE cls \in {"Popup", "Gauge"}

\* ids the screen has registered already
TakenIds == {"dup"}

\* elt_type(**d): the element, or the exception the constructor raises
Construct(cls, d) ==
    IF "id" \in DOMAIN d /\ d["id"].kind = "str" /\ d["id"].value \in TakenIds
    THEN Raise("DuplicateElementError")
    ELSE IF "bad" \in DOMAIN d THEN Raise("TypeError")
    ELSE [kind |-> "element", cls |-> cls, args |-> d]

NoneValue == [kind |-> "none"]

\* type(elt).__name__
TypeOf(val) ==
    CASE val.kind = "element" -> val.cls
      [] val.kind = "none" -> "NoneType"
      [] OTHER -> val.kind

\* a value with every reference replaced by the object it denotes now
RECURSIVE Deref(_, _, _)
Deref(val, opt, bind) ==
    CASE val.kind = "ref" ->
            Deref(IF val.root = "binding" THEN bind[val.name] ELSE opt[val.name],
                  opt, bind)
      [] val.kind = "dict" ->
            Dict([k \in DOMAIN val.items |-> Deref(val.items[k], opt, bind)])
      [] val.kind = "list" ->
            List([i \in 1..Len(val.items) |-> Deref(val.items[i], opt, bind)])
      [] val.kind = "element" ->
            [val EXCEPT !.args = [k \in DOMAIN val.args |-> Deref(val.args[k], opt, bind)]]
      [] OTHER -> val

-----------------------------------------------------------------------------
(* DashboardLoader: the walk *)

RECURSIVE construct_dashboard_node(_, _, _)
RECURSIVE MappingLoop(_, _, _, _, _, _)
RECURSIVE SequenceLoop(_, _, _, _, _, _)
RECURSIVE construct_element(_, _, _)

\* the for loop of construct_mapping from entry i on, d built so far
MappingLoop(ctx, node, i, d, log, depth) ==
    IF i > Len(node.entries) THEN Out(Dict(d), log)
    ELSE LET e == node.entries[i]
         IN  IF e.ext
             THEN LET r == ExtendMapping(ctx, d, e)
                  IN  IF r.kind = "raise" THEN Out(r, log)
                      ELSE MappingLoop(ctx, node, i + 1, r.items, log, depth)
             ELSE LET o == construct_dashboard_node(ctx, e.val, depth + 1)
                  IN  IF o.val.kind = "raise" THEN Out(o.val, log \o o.log)
                      ELSE MappingLoop(ctx, node, i + 1, SetItem(d, e.key, o.val),
                                       log \o o.log, depth)

\* validator_for taking the configured validator at every depth
validator_for_configured(ctx, depth) == ctx.validator

\* validator_for keeping the configured validator for the root only
validator_for_root_only(ctx, depth) ==
    IF depth < 1 THEN ctx.validator ELSE "validate_general"

\* construct_mapping, the choice of the validator by depth
validator_for(ctx, depth) ==
    IF depth <= 1 THEN ctx.validator ELSE "validate_general"

\* what parse_element_type gives: a class, a TemplateElement, None, or the
\* exception it raises; log holds the validator it applied
Resolved(status, cls, log) == [status |-> status, cls |-> cls, log |-> log]

\* DashboardLoader.parse_element_type
parse_element_type(ctx, elt_type, validator, depth) ==
    IF elt_type = "None" /\ validator = "validate_general"
    THEN Resolved("None", "", <<>>)
    ELSE IF Len(split(elt_type)) = 1
    THEN IF elt_type \in default_elements
         THEN Resolved("class", elt_type, <<>>)
         ELSE Resolved("KeyError", "", <<>>)
    ELSE IF Len(split(elt_type)) # 2
    THEN Resolved("ValueError", "", <<>>)
    ELSE LET idf == split(elt_type)[1]
             elt_type_str == split(elt_type)[2]
         IN  IF ctx.parsers = Unset
             THEN Resolved("AttributeError", "", <<>>)
             ELSE IF idf \notin DOMAIN ctx.parsers
             THEN Resolved("SyntaxWarning", "", <<>>)
             ELSE IF CallParser(ctx, ctx.parsers[idf], elt_type_str) = "KeyError"
             THEN Resolved("KeyError", "", <<>>)
             ELSE IF idf = "template"
             THEN Resolved("template", elt_type_str, <<>>)
             ELSE IF Accepts(validator, elt_type_str)
             THEN Resolved("class", elt_type_str,
                           <<Event("validate", ctx, depth, validator,
                                   elt_type_str, elt_type, "ok")>>)
             ELSE Resolved("TypeError", "",
                           <<Event("validate", ctx, depth, validator,
                                   elt_type_str, elt_type, "TypeError")>>)

\* construct_mapping, the except clauses around parse_element_type: the
\* error is logged, _config_error is set and the node gives None
Unresolved(ctx, log, depth, type_str, kind) ==
    Out(NoneValue, Append(log, Event("error", ctx, depth, "", "", type_str, kind)))

\* Failed raising the exception again whatever DEBUGGING is
Failed_reraise(ctx, log, depth, type_str, kind, exc) ==
    Out(Raise(exc), Append(log, Event("error", ctx, depth, "", "", type_str, kind)))

\* construct_mapping, the except clauses around the constructor call: the
\* error is logged and _config_error is set; the exception is raised again
\* when DEBUGGING, else the function ends without a return statement
Failed(ctx, log, depth, type_str, kind, exc) ==
    Out(IF ctx.dbg THEN Raise(exc) ELSE NoneValue,
        Append(log, Event("error", ctx, depth, "", "", type_str, kind)))

\* the except clause an exception of the try block falls into
ErrorKind(exc) ==
    CASE exc = "DuplicateElementError" -> "DuplicateIdentifier"
      [] exc \in {"TemplateElementError", "TemplateTypeError"} -> "TemplateError"
      [] OTHER -> "ConstructorFailure"

\* d after d.pop("type")
Popped(d) == [k \in DOMAIN d \ {"type"} |-> d[k]]

\* construct_mapping, elt = elt_type(**d)
ConstructElement(ctx, d, log, depth, type_str, cls) ==
    LET elt == Construct(cls, Popped(d))
        lg == Append(log, Event("construct", ctx, depth, "", cls, type_str,
                                IF elt.kind = "raise" THEN elt.exc ELSE "ok"))
    IN  IF elt.kind = "raise"
        THEN Failed(ctx, lg, depth, type_str, ErrorKind(elt.exc), elt.exc)
        ELSE Out(elt, lg)

\* Instantiated returning the object without the validator call
Instantiated_unvalidated(ctx, log, depth, type_str, validator, r, elt) ==
    IF r.status # "ok"
    THEN Failed(ctx, log, depth, type_str, ErrorKind(r.status), r.status)
    ELSE Out(elt, log)

\* construct_mapping, what follows elt = elt_type.construct_element(**v): r
\* is the outcome of the instantiation and elt the object it returned
Instantiated(ctx, log, depth, type_str, validator, r, elt) ==
    IF r.status # "ok"
    THEN Failed(ctx, log, depth, type_str, ErrorKind(r.status), r.status)
    ELSE IF Accepts(validator, TypeOf(elt))
    THEN Out(elt, Append(log, Event("validate", ctx, depth, validator,
                                    TypeOf(elt), type_str, "ok")))
    ELSE Failed(ctx,
                Append(log, Event("validate", ctx, depth, validator,
                                  TypeOf(elt), type_str, "TypeError")),
                depth, type_str, "TemplateError", "TemplateTypeError")

\* the call elt_type.construct_element(**v) itself
Called_(ctx, log, depth, type_str, validator, t, bind, r) ==
    Instantiated(ctx, log \o r.log, depth, type_str, validator, r,
                 IF r.status = "ok"
                 THEN Deref(r.res, t.optional_variables, bind) ELSE r.res)

\* construct_mapping, the branch of a TemplateElement: the entries of the
\* node are the keyword arguments of construct_element, which takes
\* "variables" only
ConstructTemplate(ctx, d, log, depth, type_str, name, validator) ==
    LET v == Popped(d)
    IN  IF ~(DOMAIN v \subseteq {"variables"})
        THEN Failed(ctx, log, depth, type_str, "ConstructorFailure", "TypeError")
        ELSE LET bind == IF "variables" \in DOMAIN v /\ v["variables"].kind = "dict"
                         THEN v["variables"].items ELSE EmptyMap
             IN  Called_(ctx, log, depth, type_str, validator, ctx.templates[name],
                         bind, construct_element(ctx.templates[name], bind, ctx))

\* construct_mapping from parse_element_type on
Dispatch(ctx, d, log, depth, type_str, validator, p) ==
    CASE p.status \in {"KeyError", "TypeError"} ->
            Unresolved(ctx, log \o p.log, depth, type_str, "BadType")
      [] p.status = "SyntaxWarning" ->
            Unresolved(ctx, log \o p.log, depth, type_str, "BadIdentifier")
      [] p.status \in {"ValueError", "AttributeError"} ->
            Out(Raise(p.status), log \o p.log)
      [] p.status = "None" -> Out(Dict(d), log)
      [] p.status = "template" ->
            ConstructTemplate(ctx, d, log, depth, type_str, p.cls, validator)
      [] OTHER -> ConstructElement(ctx, d, log \o p.log, depth, type_str, p.cls)

\* construct_mapping after the for loop, d being the dict it built
TypedMapping(ctx, d, log, depth) ==
    IF "type" \notin DOMAIN d THEN Out(Dict(d), log)
    ELSE IF d["type"] = Str("None") /\ Cardinality(DOMAIN d) = 1
    THEN Out(NoneValue, log)
    ELSE IF d["type"].kind # "str"
    THEN Unresolved(ctx, log, depth, "", "BadType")
    ELSE Dispatch(ctx, d, log, depth, d["type"].value, validator_for(ctx, depth),
                  parse_element_type(ctx, d["type"].value,
                                     validator_for(ctx, depth), depth))

\* the dict the for loop of construct_mapping gave, or its exception
AfterLoop(ctx, o, depth) ==
    IF o.val.kind = "raise" THEN o ELSE TypedMapping(ctx, o.val.items, o.log, depth)

\* DashboardLoader.construct_mapping
construct_mapping(ctx, node, depth) ==
    AfterLoop(ctx, MappingLoop(ctx, node, 1, EmptyMap, <<>>, depth), depth)

\* the for loop of construct_sequence from item i on
SequenceLoop(ctx, node, i, seq_vals, log, depth) ==
    IF i > Len(node.items) THEN Out(List(seq_vals), log)
    ELSE LET n == node.items[i]
         IN  IF n.kind = "extend"
             THEN LET r == ExtendSequence(ctx, seq_vals, n)
                  IN  IF r.kind = "raise" THEN Out(r, log)
                      ELSE SequenceLoop(ctx, node, i + 1, r.items, log, depth)
             ELSE LET o == construct_dashboard_node(ctx, n, depth + 1)
                  IN  IF o.val.kind = "raise" THEN Out(o.val, log \o o.log)
                      ELSE SequenceLoop(ctx, node, i + 1, Append(seq_vals, o.val),
                                        log \o o.log, depth)

\* DashboardLoader.construct_sequence
construct_sequence(ctx, node, depth) ==
    SequenceLoop(ctx, node, 1, <<>>, <<>>, depth)

construct_dashboard_node(ctx, node, depth) ==
    CASE node.kind = "map" -> construct_mapping(ctx, node, depth)
      [] node.kind = "seq" -> construct_sequence(ctx, node, depth)
      [] node.kind = "var" -> Out(template_variable_constructor(ctx, node), <<>>)
      [] OTHER -> Out(Str(node.value), <<>>)


-----------------------------------------------------------------------------
(* TemplateElement.construct_element *)

TemplateDepth == 2

\* Missing with the membership test inverted
Missing_inverted(t, variables_) ==
    { x \in t.required_variables : x \in DOMAIN variables_ }

Missing(t, variables_) ==
    { x \in t.required_variables : x \notin DOMAIN variables_ }

MappingErr(t, variables_) ==
    { x \in t.mapping_variables :
        x \in DOMAIN variables_ /\ variables_[x].kind # "dict" }

\* SequenceErr with the negation of the isinstance test dropped
SequenceErr_inverted(t, variables_) ==
    { x \in t.sequence_variables :
        x \in DOMAIN variables_ /\ variables_[x].kind = "list" }

SequenceErr(t, variables_) ==
    { x \in t.sequence_variables :
        x \in DOMAIN variables_ /\ variables_[x].kind # "list" }

\* OptionalAfter when the overlay is done in place (|= for |)
OptionalAfter_update(t, variables_) ==
    [n \in DOMAIN t.optional_variables \cup DOMAIN variables_ |->
        IF n \in DOMAIN variables_ THEN variables_[n] ELSE t.optional_variables[n]]

\* self._optional_variables after the call
OptionalAfter(t, variables_) == t.optional_variables

\* the outcome of a call whose checks passed and whose rewrite gave o
Returned(ctx, o) ==
    [status |-> IF o.val.kind = "raise" THEN o.val.exc ELSE "ok",
     raised |-> IF o.val.kind = "raise" THEN 1 ELSE 0,
     missing |-> {}, maperr |-> {}, seqerr |-> {},
     template_vars |-> ctx.tv, res |-> o.val, log |-> o.log]

\* Checked raising only after the body was rewritten and constructed
Checked_late_raise(t, variables_, missing, maperr, seqerr, env) ==
    LET ctx == [tv |-> TemplateVars(t, variables_),
                opt |-> t.optional_variables, bind |-> variables_,
                loader |-> "TemplateParser", validator |-> env.validator,
                dbg |-> env.dbg, templates |-> env.templates,
                parsers |-> env.parsers]
        r == Returned(ctx, construct_dashboard_node(ctx, t.template_node, TemplateDepth))
    IN  IF missing # {} \/ maperr # {} \/ seqerr # {}
        THEN [status |-> "TemplateElementError", raised |-> 1,
              missing |-> missing, maperr |-> maperr, seqerr |-> seqerr,
              template_vars |-> EmptyMap, res |-> Raise("TemplateElementError"),
              log |-> r.log]
        ELSE r

\* the outcome of a call given the three lists of offending variables; env
\* is the loader the call is made from
Checked(t, variables_, missing, maperr, seqerr, env) ==
    IF missing # {} \/ maperr # {} \/ seqerr # {}
    THEN [status |-> "TemplateElementError", raised |-> 1,
          missing |-> missing, maperr |-> maperr, seqerr |-> seqerr,
          template_vars |-> EmptyMap, res |-> Raise("TemplateElementError"),
          log |-> <<>>]
    ELSE LET ctx == [tv |-> TemplateVars(t, variables_),
                     opt |-> t.optional_variables, bind |-> variables_,
                     loader |-> "TemplateParser", validator |-> env.validator,
                     dbg |-> env.dbg, templates |-> env.templates,
                parsers |-> env.parsers]
         IN  Returned(ctx, construct_dashboard_node(ctx, t.template_node, TemplateDepth))

construct_element(t, variables_, env) ==
    Checked(t, variables_, Missing(t, variables_),
            MappingErr(t, variables_), SequenceErr(t, variables_), env)

-----------------------------------------------------------------------------
(* The state machine *)

NoLoad == [name |-> "", status |-> "none"]
NoCall == [name |-> "", status |-> "none"]
NoNode == [status |-> "none"]

\* the class attribute _validator as DashboardLoader defines it
DefaultValidator == "validate_general"

\* _config_error after a walk: set on the class of every loader that logged
\* an error
FlagsAfter(flags, log) ==
    [c \in DOMAIN flags |->
        flags[c] \/ \E i \in 1..Len(log) : log[i].ev = "error" /\ log[i].loader = c]

\* the parsers bootstrap registers: import_custom_elements the one of the
\* custom elements, the dashboard setup the one of the templates
BootParsers == [custom |-> "custom_parser", template |-> "template_parser"]

\* _CORE after CORE() and setup_core: the set slots; clock is the time
\* dt.now() gave last, counted in set-ups, and START_TIME 0 an unset slot
BootCore ==
    [START_TIME |-> 1, stage |-> "NONE", elementParsers |-> BootParsers,
     screen |-> TRUE, integrationLoader |-> FALSE, clock |-> 1]

NoCore == [op |-> "none", status |-> "none"]
NoTasks == <<>>
NoConfig == [status |-> "none"]

Init ==
    /\ templates = [n \in {} |-> 0]
    /\ lastLoad = NoLoad
    /\ variables = EmptyMap
    /\ lastCall = NoCall
    /\ held = NoCall
    /\ config_error = [DashboardLoader |-> FALSE, TemplateParser |-> FALSE]
    /\ lastNode = NoNode
    /\ DEBUGGING \in BOOLEAN
    /\ CORE = BootCore
    /\ lastCore = NoCore
    /\ tasks = NoTasks
    /\ substitutions = Unset
    /\ lastConfig = NoConfig

\* LoadTemplate creating the TemplateElement before the errors are raised
LoadTemplate_register_first(name, doc) ==
    LET r == construct_template(name, doc)
    IN  /\ lastLoad' = [name |-> name, status |-> r.status, doc |-> doc]
        /\ templates' = Register(templates, name, TemplateElement(name, doc))
        /\ UNCHANGED <<variables, lastCall, held, config_error, lastNode, DEBUGGING, processVars>>

\* LoadTemplate looking the type of the body up when the template is compiled
LoadTemplate_resolving(name, doc) ==
    LET r == construct_template(name, doc)
        typed == /\ doc.element.kind = "map"
                 /\ Len(doc.element.entries) > 0
                 /\ doc.element.entries[1].key = "type"
                 /\ doc.element.entries[1].val.kind = "scalar"
        ty == doc.element.entries[1].val.value
        known == \/ ~typed
                 \/ ty \in default_elements
                 \/ /\ Len(split(ty)) = 2
                    /\ CORE.elementParsers # Unset
                    /\ split(ty)[1] \in DOMAIN CORE.elementParsers
                    /\ CallParser([templates |-> templates],
                                  CORE.elementParsers[split(ty)[1]],
                                  split(ty)[2]) # "KeyError"
        status == IF known THEN r.status ELSE "KeyError"
    IN  /\ lastLoad' = [name |-> name, status |-> status, doc |-> doc]
        /\ templates' = IF status = "ok"
                        THEN Register(templates, name, r.element)
                        ELSE templates
        /\ UNCHANGED <<variables, lastCall, held, config_error, lastNode, DEBUGGING, processVars>>

\* TemplateLoader(name, node).construct_template()
LoadTemplate(name, doc) ==
    LET r == construct_template(name, doc)
    IN  /\ lastLoad' = [name |-> name, status |-> r.status, doc |-> doc]
        /\ templates' = IF r.status = "ok"
                        THEN Register(templates, name, r.element)
                        ELSE templates
        /\ UNCHANGED <<variables, lastCall, held, config_error, lastNode, DEBUGGING, processVars>>

\* what the caller of construct_element observes: the outcome, the binding
\* map as it was passed, the returned object (res) and its content at the
\* moment of the return (value); touched records a later change the caller
\* makes to the returned object itself
CallRecord(name, t, variables_, r) ==
    [name |-> name, status |-> r.status, raised |-> r.raised,
     passed |-> variables_, missing |-> r.missing, maperr |-> r.maperr,
     seqerr |-> r.seqerr, template_vars |-> r.template_vars, res |-> r.res,
     value |-> Deref(r.res, t.optional_variables, variables_),
     node |-> t.template_node, log |-> r.log,
     touched |-> FALSE]

\* parse_template(name).construct_element(variables)
Instantiate(name, variables_) ==
    /\ name \in DOMAIN templates
    /\ variables' = variables_
    /\ templates' = [templates EXCEPT ![name].optional_variables =
                        OptionalAfter(templates[name], variables_)]
    /\ lastCall' = CallRecord(name, templates[name], variables_,
                              construct_element(templates[name], variables_,
                                  [validator |-> DefaultValidator,
                                   dbg |-> DEBUGGING, templates |-> templates,
                                   parsers |-> CORE.elementParsers]))
    /\ held' = IF lastCall.status = "ok" /\ lastCall.name = name
                  /\ variables = variables_
               THEN lastCall ELSE NoCall
    /\ config_error' = FlagsAfter(config_error, lastCall'.log)
    /\ UNCHANGED <<lastLoad, lastNode, DEBUGGING, processVars>>

\* the documents a load may be given
LoadableDocs == { doc \in Docs : WellFormedDoc(doc) }

\* one template document is loaded, then instantiated any number of times
LoadOnce ==
    /\ lastLoad.status = "none"
    /\ \E name \in TemplateNames, doc \in LoadableDocs : LoadTemplate(name, doc)

Next ==
    \/ LoadOnce
    \/ \E name \in DOMAIN templates, b \in BindingMaps : Instantiate(name, b)

Spec == Init /\ [][Next]_vars

-----------------------------------------------------------------------------
(* The caller changing the objects it holds *)

\* a dict or list after the caller sets one item of it
Changed(obj) ==
    IF obj.kind = "dict" THEN Dict(SetItem(obj.items, "z", Str("Z")))
    ELSE List(<<Str("Z")>> \o Tail(obj.items))

Changeable(obj) ==
    \/ obj.kind = "dict" /\ "z" \notin DOMAIN obj.items
    \/ obj.kind = "list" /\ obj.items # <<>> /\ obj.items[1] # Str("Z")

\* the positions of the items of a returned dict or list
Positions(res) ==
    IF res.kind = "dict" THEN DOMAIN res.items
    ELSE IF res.kind = "list" THEN 1..Len(res.items) ELSE {}

\* the objects after the caller sets an item of the object at
\* res.items[pos] of a result it holds: an object the call created lies in
\* the result alone; a referenced object is the one stored in the template's
\* optional variables or in the binding map
ResultAfter(r, pos) ==
    IF r.res.items[pos].kind = "ref" THEN [r EXCEPT !.touched = TRUE]
    ELSE [r EXCEPT !.res.items[pos] = Changed(@), !.touched = TRUE]

TemplatesAfter(r, pos) ==
    LET item == r.res.items[pos]
    IN  IF item.kind = "ref" /\ item.root = "default"
        THEN [templates EXCEPT ![r.name].optional_variables[item.name] = Changed(@)]
        ELSE templates

VariablesAfter(r, pos) ==
    LET item == r.res.items[pos]
    IN  IF item.kind = "ref" /\ item.root = "binding"
        THEN [variables EXCEPT ![item.name] = Changed(@)]
        ELSE variables

\* the object at res.items[pos], as it is now
ItemObject(r, pos) ==
    LET item == r.res.items[pos]
    IN  IF item.kind # "ref" THEN item
        ELSE IF item.root = "default"
             THEN templates[r.name].optional_variables[item.name]
             ELSE variables[item.name]

\* the caller changes a value inside a result it holds
MutateResult ==
    \/ /\ lastCall.status = "ok"
       /\ \E pos \in Positions(lastCall.res) :
             /\ Changeable(ItemObject(lastCall, pos))
             /\ lastCall' = ResultAfter(lastCall, pos)
             /\ templates' = TemplatesAfter(lastCall, pos)
             /\ variables' = VariablesAfter(lastCall, pos)
             /\ UNCHANGED <<held, lastLoad, config_error, lastNode, DEBUGGING, processVars>>
    \/ /\ held.status = "ok"
       /\ \E pos \in Positions(held.res) :
             /\ Changeable(ItemObject(held, pos))
             /\ held' = ResultAfter(held, pos)
             /\ templates' = TemplatesAfter(held, pos)
             /\ variables' = VariablesAfter(held, pos)
             /\ UNCHANGED <<lastCall, lastLoad, config_error, lastNode, DEBUGGING, processVars>>

\* the caller changes a value inside the binding map after the call
MutateBinding ==
    /\ lastCall.status # "none"
    /\ \E x \in DOMAIN variables :
          /\ variables[x].kind \in {"dict", "list"}
          /\ Changeable(variables[x])
          /\ variables' = [variables EXCEPT ![x] = Changed(@)]
    /\ UNCHANGED <<templates, lastCall, held, lastLoad, config_error, lastNode,
                    DEBUGGING, processVars>>

NextAlias == Next \/ MutateResult \/ MutateBinding

SpecAlias == Init /\ [][NextAlias]_vars

-----------------------------------------------------------------------------
(* Vocabulary of the properties: the loaded document and the last call *)

Body == lastLoad.doc.element
Called == lastCall.status # "none"
CalledOk == lastCall.status = "ok"

\* the names used at scalar-substitution, mapping-splice and sequence-splice
\* sites of the loaded document
ScalarSites == { s.value : s \in { x \in TagSites(Body) : x.tag = "var" } }
MapSites ==
    { s.value : s \in { x \in TagSites(Body) : x.tag = "extend" /\ x.parent = "map" } }
SeqSites ==
    { s.key : s \in { x \in TagSites(Body) : x.tag = "extend" /\ x.parent = "seq" } }

\* the value a variable has in the last call: the caller's, else the default
Effective(n) ==
    IF n \in DOMAIN lastCall.passed THEN lastCall.passed[n]
    ELSE lastLoad.doc.defaults[n]
HasEffective(n) ==
    n \in DOMAIN lastCall.passed \/ n \in DOMAIN lastLoad.doc.defaults

\* the indices of the splice of v and of the literal entries with key k in
\* the entries of a body mapping
SpliceAt(es, v) == { i \in 1..Len(es) : es[i].ext /\ es[i].val.value = v }
LiteralAt(es, k) == { i \in 1..Len(es) : ~es[i].ext /\ es[i].key = k }

\* the value a literal entry gives its key
LiteralValue(e) ==
    IF e.val.kind = "var" THEN Effective(e.val.name) ELSE Str(e.val.value)

\* the body is a mapping with the literal entry k = A and a splice of v, and
\* no literal entry j; v is bound to {k: B, j: C}
PrecedenceCase ==
    /\ CalledOk
    /\ Body.kind = "map"
    /\ SpliceAt(Body.entries, "v") # {}
    /\ LiteralAt(Body.entries, "k") # {}
    /\ LiteralAt(Body.entries, "j") = {}
    /\ "v" \in DOMAIN lastCall.passed
    /\ lastCall.passed["v"] = MapValue

\* C1 as stated: with a literal entry k = A and a mapping splice bound to
\* {k: B, j: C}, the instantiated mapping has k = A and j = C wherever the
\* splice site stands.
C1_LiteralAlwaysWins ==
    PrecedenceCase =>
        /\ lastCall.value.items["k"] = Str("A")
        /\ lastCall.value.items["j"] = Str("C")

\* C1 as amended: the instantiated mapping has j = C, and k = A when the
\* splice site precedes the literal k entry, but k = B when the splice site
\* follows it.
C1_PrecedenceByPosition ==
    PrecedenceCase =>
        LET e == CHOOSE i \in SpliceAt(Body.entries, "v") : TRUE
            l == CHOOSE i \in LiteralAt(Body.entries, "k") : TRUE
        IN  /\ lastCall.value.items["j"] = Str("C")
            /\ lastCall.value.items["k"] = IF e < l THEN Str("A") ELSE Str("B")

C1_Witness ==
    /\ PrecedenceCase
    /\ \E e \in SpliceAt(Body.entries, "v"), l \in LiteralAt(Body.entries, "k") : l < e
    /\ lastCall.value.items["k"] = Str("B")

\* the body is a mapping with one splice site, of v
SpliceCase ==
    /\ CalledOk
    /\ Body.kind = "map"
    /\ Cardinality(SpliceAt(Body.entries, "v")) = 1

\* C2: a key supplied by a mapping-splice variable overrides a literal entry
\* with that key before the splice site, is overridden by a literal entry
\* with that key after the splice site, and is added when no literal entry
\* has the key; with the variable unbound (and without default) the mapping
\* is the literal entries unchanged.
C2_SplicePrecedence ==
    SpliceCase =>
        LET es == Body.entries
            e == CHOOSE i \in SpliceAt(es, "v") : TRUE
            spliced == IF HasEffective("v") THEN Effective("v").items ELSE EmptyMap
            literals == { es[i].key : i \in { x \in 1..Len(es) : ~es[x].ext } }
            got == lastCall.value.items
        IN  /\ DOMAIN got = literals \cup DOMAIN spliced
            /\ \A k \in DOMAIN spliced :
                  IF \E i \in LiteralAt(es, k) : i > e
                  THEN \E i \in LiteralAt(es, k) : got[k] = LiteralValue(es[i])
                  ELSE got[k] = spliced[k]
            /\ \A k \in literals \ DOMAIN spliced :
                  \E i \in LiteralAt(es, k) : got[k] = LiteralValue(es[i])

C2_Witness ==
    /\ SpliceCase
    /\ Body.entries = <<Entry("k", ScalarNode("A")), ExtendEntry("v")>>
    /\ "v" \in DOMAIN lastCall.passed
    /\ lastCall.passed["v"] = MapValue2
    /\ lastCall.value = Dict([k |-> Str("A"), j |-> Str("E")])

\* the body is a sequence of plain scalars and splice sites
SequenceCase ==
    /\ CalledOk
    /\ Body.kind = "seq"
    /\ \A i \in 1..Len(Body.items) : Body.items[i].kind \in {"scalar", "extend"}

\* the items a sequence body should give from item i on
RECURSIVE ExpectedItems(_, _)
ExpectedItems(items, i) ==
    IF i > Len(items) THEN <<>>
    ELSE (IF items[i].kind = "extend"
          THEN (IF HasEffective(items[i].name)
                THEN Effective(items[i].name).items ELSE <<>>)
          ELSE <<Str(items[i].value)>>)
         \o ExpectedItems(items, i + 1)

\* C3: the items bound to a sequence-splice variable are inserted at the
\* place of the splice site, in order and without deduplication, between
\* the literal items before and after it; an unbound variable without
\* default inserts nothing.
C3_SequenceSplice ==
    SequenceCase => lastCall.value = List(ExpectedItems(Body.items, 1))

C3_Witness ==
    /\ SequenceCase
    /\ Body.items = <<ScalarNode("x"), ExtendNode("w"), ScalarNode("y")>>
    /\ "w" \in DOMAIN lastCall.passed
    /\ lastCall.passed["w"] = SeqValue
    /\ lastCall.value = List(<<Str("x"), Str("p"), Str("q"), Str("y")>>)

\* the required variables of the loaded document the last call did not bind
MissingRequired ==
    (ScalarSites \ DOMAIN lastLoad.doc.defaults) \ DOMAIN lastCall.passed

\* the splice variables the last call bound to a value of the wrong shape
WrongMapShape ==
    { x \in MapSites \cap DOMAIN lastCall.passed : lastCall.passed[x].kind # "dict" }
WrongSeqShape ==
    { x \in SeqSites \cap DOMAIN lastCall.passed : lastCall.passed[x].kind # "list" }

\* C4: construct_element fails with a TemplateElementError if and only if a
\* required variable is absent from the binding map or a shape check fails;
\* the one error of the call names all the missing required variables.
C4_FailsIffMissingOrShape ==
    Called =>
        /\ (lastCall.status = "TemplateElementError")
              <=> (MissingRequired # {} \/ WrongMapShape # {} \/ WrongSeqShape # {})
        /\ lastCall.status = "TemplateElementError" =>
              /\ lastCall.missing = MissingRequired
              /\ lastCall.raised = 1

C4_Witness ==
    /\ Called
    /\ lastCall.status = "TemplateElementError"
    /\ lastCall.missing = {"v", "w"}
    /\ MissingRequired = {"v", "w"}

\* C5: construct_element fails whenever a mapping-splice variable present in
\* the binding map is not bound to a mapping, or a sequence-splice variable
\* present in it is not bound to a sequence; a splice variable absent from
\* the binding map is never reported as wrongly shaped.
C5_ShapeChecks ==
    Called =>
        /\ (WrongMapShape # {} \/ WrongSeqShape # {})
              => lastCall.status = "TemplateElementError"
        /\ lastCall.maperr = WrongMapShape
        /\ lastCall.seqerr = WrongSeqShape
        /\ (lastCall.maperr \cup lastCall.seqerr) \subseteq DOMAIN lastCall.passed

C5_Witness ==
    /\ Called
    /\ "w" \in SeqSites
    /\ "w" \in DOMAIN lastCall.passed
    /\ lastCall.passed["w"] = StrValue
    /\ lastCall.seqerr = {"w"}
    /\ lastCall.status = "TemplateElementError"

Loaded == lastLoad.status # "none"

\* C6 as stated: compiling fails whenever a name is used both as a scalar
\* substitution and as a mapping splice, or both as a mapping splice and as
\* a sequence splice.
C6_KindCollisionFails ==
    Loaded =>
        ((ScalarSites \cap MapSites # {} \/ MapSites \cap SeqSites # {})
            => lastLoad.status = "TemplateLoadError")

\* C7: construct_template fails with a TemplateLoadError whenever the
\* document lacks an "element" entry or has an entry other than "element"
\* and "defaults", and then registers nothing.
C7_StructureErrors ==
    Loaded =>
        (("element" \notin lastLoad.doc.keys
            \/ ~(lastLoad.doc.keys \subseteq {"element", "defaults"}))
          => /\ lastLoad.status = "TemplateLoadError"
             /\ lastLoad.name \notin DOMAIN templates)

C7_Witness ==
    /\ Loaded
    /\ lastLoad.doc.keys = {"element", "some_key"}
    /\ lastLoad.status = "TemplateLoadError"

\* the defaults of the loaded document whose shape does not fit the splice
WrongDefaults ==
    { x \in DOMAIN lastLoad.doc.defaults :
        \/ x \in MapSites /\ lastLoad.doc.defaults[x].kind # "dict"
        \/ x \in SeqSites /\ lastLoad.doc.defaults[x].kind # "list" }

\* C8: compiling fails whenever "defaults" gives a mapping-splice variable a
\* default that is no mapping, or a sequence-splice variable a default that
\* is no sequence; a default of the right shape is accepted (it causes no
\* failure) and is stored as the variable's optional value.
C8_DefaultShapes ==
    Loaded =>
        /\ WrongDefaults # {} => lastLoad.status = "TemplateLoadError"
        /\ (/\ WrongDefaults = {}
            /\ lastLoad.doc.keys \subseteq {"element", "defaults"}
            /\ "element" \in lastLoad.doc.keys
            /\ MapSites \cap SeqSites = {})
              => lastLoad.status = "ok"
        /\ lastLoad.status = "ok" =>
              \A x \in (MapSites \cup SeqSites) \cap DOMAIN lastLoad.doc.defaults :
                  /\ x \in DOMAIN templates[lastLoad.name].optional_variables
                  /\ templates[lastLoad.name].optional_variables[x]
                        = lastLoad.doc.defaults[x]

C8_Witness ==
    /\ Loaded
    /\ lastLoad.status = "ok"
    /\ "v" \in MapSites
    /\ "v" \in DOMAIN lastLoad.doc.defaults
    /\ templates[lastLoad.name].optional_variables["v"] = DefaultMap

\* the variables of the loaded document that have a default and are used
UsedDefaults ==
    DOMAIN lastLoad.doc.defaults \cap (ScalarSites \cup MapSites \cup SeqSites)

\* C9: the effective variable map of a call is the compiled defaults
\* overlaid by the caller's binding map, a caller's value replacing the
\* default as a whole; the stored defaults are those of the document after
\* any number of calls, so each call reflects its own overrides only.
C9_EffectiveVariables ==
    /\ lastLoad.status = "ok" =>
          /\ DOMAIN templates[lastLoad.name].optional_variables = UsedDefaults
          /\ \A x \in UsedDefaults :
                templates[lastLoad.name].optional_variables[x]
                    = lastLoad.doc.defaults[x]
    /\ CalledOk =>
          /\ DOMAIN lastCall.template_vars = UsedDefaults \cup DOMAIN lastCall.passed
          /\ \A x \in DOMAIN lastCall.template_vars :
                Deref(lastCall.template_vars[x],
                      templates[lastCall.name].optional_variables, variables)
                  = Effective(x)
          /\ (Body.kind = "map" /\ SpliceAt(Body.entries, "v") # {}
                /\ "v" \in DOMAIN lastCall.passed)
                => \A k \in DOMAIN lastCall.value.items :
                      \/ k \in DOMAIN lastCall.passed["v"].items
                      \/ LiteralAt(Body.entries, k) # {}

C9_Witness ==
    /\ CalledOk
    /\ held.status = "ok"
    /\ Body = MappingNode(<<ExtendEntry("v")>>)
    /\ "v" \in DOMAIN lastLoad.doc.defaults
    /\ lastCall.passed = EmptyMap
    /\ lastCall.value = DefaultMap

\* C10 as stated: two calls with the same template and the same binding map
\* give equal results, and no mutable state is shared: a result the caller
\* did not change itself keeps the content it was returned with, and the
\* template's stored defaults stay those of the document, whatever the
\* caller changes inside another result or inside the binding map.
C10_NoSharedState ==
    /\ (held.status = "ok" /\ CalledOk /\ held.passed = lastCall.passed)
          => held.value = lastCall.value
    /\ (CalledOk /\ ~lastCall.touched)
          => Deref(lastCall.res, templates[lastCall.name].optional_variables,
                   variables) = lastCall.value
    /\ (held.status = "ok" /\ ~held.touched)
          => Deref(held.res, templates[held.name].optional_variables,
                   variables) = held.value
    /\ lastLoad.status = "ok"
          => \A x \in UsedDefaults :
                templates[lastLoad.name].optional_variables[x]
                    = lastLoad.doc.defaults[x]

-----------------------------------------------------------------------------
(* Reloading: templates compiled again and again under two names *)

ReloadNames == {"t1", "t2"}

BodyA == MappingNode(<<Entry("k", ScalarNode("A"))>>)
BodyB == MappingNode(<<Entry("j", VarNode("v"))>>)
BodyC == SequenceNode(<<ScalarNode("x"), ExtendNode("w")>>)
BodyBad ==
    SequenceNode(<<ExtendNode("w"),
                   MappingNode(<<Entry("k", ScalarNode("A")), ExtendEntry("w")>>)>>)

ReloadDocs ==
    { [keys |-> {"element"}, element |-> BodyA, defaults |-> EmptyMap],
      [keys |-> {"element", "defaults"}, element |-> BodyB,
       defaults |-> [x \in {"v"} |-> DefaultMap]],
      [keys |-> {"element"}, element |-> BodyC, defaults |-> EmptyMap],
      [keys |-> {"defaults"}, element |-> NoBody, defaults |-> EmptyMap],
      [keys |-> {"element", "some_key"}, element |-> BodyB, defaults |-> EmptyMap],
      [keys |-> {"element"}, element |-> BodyBad, defaults |-> EmptyMap],
      [keys |-> {"element", "defaults"}, element |-> BodyC,
       defaults |-> [x \in {"w"} |-> StrValue]] }

ReloadBindings ==
    { EmptyMap, [x \in {"v"} |-> StrValue], [x \in {"w"} |-> SeqValue] }

Reload ==
    \E name \in ReloadNames, doc \in ReloadDocs : LoadTemplate(name, doc)

NextReload ==
    \/ Reload
    \/ \E name \in DOMAIN templates, b \in ReloadBindings : Instantiate(name, b)

SpecReload == Init /\ [][NextReload]_vars

\* a step that is a call of construct_template: it records another load
LoadStep == lastLoad' # lastLoad

\* a step that is a call of construct_element
CallStep == lastCall' # lastCall \/ held' # held

\* C11: a successful compile under a name that is registered already leaves
\* one definition under that name, the one just compiled, and touches no
\* other name; a call of construct_element that follows the compile uses the
\* body and the variables of the new document.
C11_LastRegisteredWins ==
    [][ /\ (LoadStep /\ lastLoad'.status = "ok") =>
              /\ DOMAIN templates' = DOMAIN templates \cup {lastLoad'.name}
              /\ templates'[lastLoad'.name].template_node = lastLoad'.doc.element
              /\ templates'[lastLoad'.name].required_variables
                    = ScalarSites' \ DOMAIN lastLoad'.doc.defaults
              /\ DOMAIN templates'[lastLoad'.name].optional_variables = UsedDefaults'
              /\ \A n \in DOMAIN templates \ {lastLoad'.name} :
                    templates'[n] = templates[n]
        /\ (CallStep /\ lastLoad.status = "ok" /\ lastCall'.name = lastLoad.name) =>
              /\ lastCall'.node = Body
              /\ lastCall'.missing
                    = (ScalarSites \ DOMAIN lastLoad.doc.defaults)
                        \ DOMAIN lastCall'.passed
      ]_vars

C11_Witness ==
    /\ CalledOk
    /\ held.status = "ok"
    /\ held.node # lastCall.node
    /\ lastLoad.status = "ok"
    /\ lastLoad.name = lastCall.name
    /\ lastCall.node = Body

\* C12: a call of construct_template that raises leaves the registry as it
\* was, a definition registered before under the same name included; and a
\* document without structural error compiles whether or not the compile
\* before it failed.
C12_AllOrNothing ==
    [][ LoadStep =>
          /\ lastLoad'.status = "TemplateLoadError" => templates' = templates
          /\ (/\ lastLoad.status = "TemplateLoadError"
              /\ lastLoad'.doc.keys \subseteq {"element", "defaults"}
              /\ "element" \in lastLoad'.doc.keys
              /\ MapSites' \cap SeqSites' = {}
              /\ WrongDefaults' = {})
                => /\ lastLoad'.status = "ok"
                   /\ lastLoad'.name \in DOMAIN templates'
                   /\ templates'[lastLoad'.name].template_node = lastLoad'.doc.element
      ]_vars

C12_Witness ==
    /\ lastLoad.status = "TemplateLoadError"
    /\ lastLoad.name \in DOMAIN templates
    /\ "element" \in lastLoad.doc.keys
    /\ templates[lastLoad.name].template_node # Body

\* C13: a call of construct_element that returns leaves every registered
\* Template Definition as it was: the body node, the required, optional,
\* mapping and sequence variables and the stored defaults.
C13_DefinitionUnchanged ==
    [][ (CallStep /\ lastCall'.status = "ok") => templates' = templates ]_vars

C13_Witness ==
    /\ CalledOk
    /\ held.status = "ok"
    /\ "v" \in DOMAIN lastCall.passed
    /\ "v" \in DOMAIN templates[lastCall.name].optional_variables
    /\ templates[lastCall.name].optional_variables["v"] # lastCall.passed["v"]
    /\ templates[lastCall.name].optional_variables["v"] = lastLoad.doc.defaults["v"]

-----------------------------------------------------------------------------
(* Documents with typed nodes, and templates with typed bodies *)

TypedNode(type) == MappingNode(<<Entry("type", ScalarNode(type))>>)

\* the variables entry of a template reference site
VariablesEntry(node) == Entry("variables", MappingNode(<<Entry("v", node)>>))

\* nodes that name a registered class and construct
PlainNodes == { TypedNode("Button"), TypedNode("Popup"), TypedNode("custom:Gauge"),
                TypedNode("custom:Dial") }

NestedNodes ==
    { MappingNode(<<Entry("type", ScalarNode("custom:Gauge")),
                    Entry("child", TypedNode("custom:Dial"))>>),
      MappingNode(<<Entry("type", ScalarNode("Popup")),
                    Entry("items", SequenceNode(<<TypedNode("custom:Gauge")>>))>>) }

UnknownTypes == {"unknown:Widget", "custom:Nope", "Nope", "a:b:c"}
UnknownNodes == { TypedNode(type) : type \in UnknownTypes }

DuplicateNode ==
    MappingNode(<<Entry("type", ScalarNode("Button")), Entry("id", ScalarNode("dup"))>>)
BrokenNode ==
    MappingNode(<<Entry("type", ScalarNode("Popup")), Entry("bad", ScalarNode("x"))>>)
FailingNodes == {DuplicateNode, BrokenNode}

NoneNodes ==
    { TypedNode("None"),
      MappingNode(<<Entry("type", ScalarNode("None")), Entry("k", ScalarNode("A"))>>) }

TemplateNodes ==
    { TypedNode("template:t1"),
      MappingNode(<<Entry("type", ScalarNode("template:t1")),
                    VariablesEntry(ScalarNode("S"))>>),
      MappingNode(<<Entry("type", ScalarNode("template:t1")),
                    VariablesEntry(MappingNode(<<Entry("j", ScalarNode("E"))>>))>>),
      MappingNode(<<Entry("type", ScalarNode("template:t1")),
                    Entry("v", ScalarNode("S"))>>),
      TypedNode("template:t9") }

ElementNodes ==
    PlainNodes \cup NestedNodes \cup UnknownNodes \cup FailingNodes
      \cup NoneNodes \cup TemplateNodes

\* a document node: one typed node, two typed nodes under the keys a and b,
\* or a typed node in a list under the key a
Documents ==
    ElementNodes
    \cup { MappingNode(<<Entry("a", x), Entry("b", y)>>) :
              x \in ElementNodes, y \in ElementNodes }
    \cup { MappingNode(<<Entry("a", SequenceNode(<<x>>))>>) : x \in ElementNodes }

Validators == {"validate_general", "validate_top"}

\* template bodies with typed nodes
TypedBodies ==
    { MappingNode(<<Entry("type", ScalarNode("Button")), Entry("text", VarNode("v"))>>),
      MappingNode(<<Entry("type", ScalarNode("custom:Gauge")),
                    Entry("child", TypedNode("custom:Dial")), ExtendEntry("v")>>),
      MappingNode(<<Entry("type", ScalarNode("custom:Dial")),
                    Entry("items", SequenceNode(<<TypedNode("Button")>>))>>),
      MappingNode(<<Entry("type", ScalarNode("custom:Gauge")),
                    Entry("child", TypedNode("Nope"))>>),
      TypedNode("Nope"),
      DuplicateNode,
      BodyA }

TypedDocs ==
    { [keys |-> {"element"}, element |-> b, defaults |-> EmptyMap] : b \in TypedBodies }

TypedBindings ==
    { EmptyMap, [x \in {"v"} |-> StrValue], [x \in {"v"} |-> MapValue2] }

\* the depth construct_dashboard_node starts at when not told otherwise
DocumentDepth == 0

\* what the caller of construct_dashboard_node observes
NodeRecord(node, validator, names, o) ==
    [status |-> IF o.val.kind = "raise" THEN o.val.exc ELSE "ok",
     node |-> node, validator |-> validator, registered |-> names,
     res |-> o.val, log |-> o.log]

\* DashboardLoader._validator = validator;
\* DashboardLoader().construct_dashboard_node(node, True)
ConstructDocument(node, validator) ==
    /\ lastNode' = NodeRecord(node, validator, DOMAIN templates,
          construct_dashboard_node(
              [tv |-> EmptyMap, opt |-> EmptyMap, bind |-> EmptyMap,
               loader |-> "DashboardLoader", validator |-> validator,
               dbg |-> DEBUGGING, templates |-> templates,
               parsers |-> CORE.elementParsers],
              node, DocumentDepth))
    /\ config_error' = FlagsAfter(config_error, lastNode'.log)
    /\ UNCHANGED <<templates, lastLoad, variables, lastCall, held, DEBUGGING, processVars>>

\* one template with a typed body is compiled and one document constructed,
\* with calls of construct_element at any moment
LoadTyped ==
    /\ lastLoad.status = "none"
    /\ \E name \in TemplateNames, doc \in TypedDocs : LoadTemplate(name, doc)

ConstructOnce ==
    /\ lastNode.status = "none"
    /\ \E node \in Documents, validator \in Validators :
          ConstructDocument(node, validator)

NextTyped ==
    \/ LoadTyped
    \/ ConstructOnce
    \/ \E name \in DOMAIN templates, b \in TypedBindings : Instantiate(name, b)

SpecTyped == Init /\ [][NextTyped]_vars

\* the entries of a log that record a constructor call
Constructs(log) == { i \in 1..Len(log) : log[i].ev = "construct" }

\* C14: a call of construct_element whose required-variable check or shape
\* check fails is rejected: it raises TemplateElementError and returns no
\* object, the body is not walked (no validator is applied, no constructor
\* is invoked, no error flag is set), and the registry and every Template
\* Definition are as before, so that the next call starts from the state the
\* rejected call started from.
C14_RejectedBuildsNothing ==
    [][ (CallStep /\ lastCall'.status = "TemplateElementError") =>
          /\ lastCall'.missing \cup lastCall'.maperr \cup lastCall'.seqerr # {}
          /\ lastCall'.res = Raise("TemplateElementError")
          /\ lastCall'.log = <<>>
          /\ templates' = templates
          /\ config_error' = config_error
          /\ lastLoad' = lastLoad
          /\ lastNode' = lastNode
      ]_vars

C14_Witness ==
    /\ lastCall.status = "TemplateElementError"
    /\ lastCall.maperr = {"v"}
    /\ lastCall.log = <<>>
    /\ templates[lastCall.name].template_node.kind = "map"
    /\ \E i \in 1..Len(templates[lastCall.name].template_node.entries) :
          templates[lastCall.name].template_node.entries[i].key = "child"

-----------------------------------------------------------------------------
(* Vocabulary of the properties: the last document *)

\* the last document is a mapping with two typed nodes, under a and under b
PairDocument ==
    /\ lastNode.status # "none"
    /\ lastNode.node.kind = "map"
    /\ Len(lastNode.node.entries) = 2
    /\ lastNode.node.entries[1].key = "a"
    /\ lastNode.node.entries[2].key = "b"

Keys == <<"a", "b">>
SiteNode(i) == lastNode.node.entries[i].val
TypeAt(i) == SiteNode(i).entries[1].val.value

\* the node beside node i is the plain popup
BesidePopup(i) == SiteNode(3 - i) = TypedNode("Popup")

\* the node beside node i was constructed as the popup it describes
SiblingConstructed(i) ==
    lastNode.res.items[Keys[3 - i]]
        = [kind |-> "element", cls |-> "Popup", args |-> EmptyMap]

\* C15 as stated: a node whose type string cannot be resolved makes
\* construct_dashboard_node raise nothing; the node gives None, the error
\* flag of DashboardLoader is set, and the node before or after it under the
\* same mapping is constructed.
C15_UnresolvedTypeContained ==
    PairDocument =>
        \A i \in {1, 2} :
            (TypeAt(i) \in UnknownTypes /\ BesidePopup(i)) =>
                /\ lastNode.status = "ok"
                /\ lastNode.res.items[Keys[i]] = NoneValue
                /\ config_error.DashboardLoader
                /\ SiblingConstructed(i)

\* node i is one whose constructor raises, beside the plain popup
FailingCase(i) == SiteNode(i) \in FailingNodes /\ BesidePopup(i)

\* the exception the constructor of node i raises
FailureOf(i) ==
    IF SiteNode(i) = DuplicateNode THEN "DuplicateElementError" ELSE "TypeError"

\* C16 as stated: when the constructor of a resolved type signals a
\* duplicate identifier or raises another exception, the node gives None and
\* the error flag is set, nothing is raised, and the node beside it is
\* constructed.
C16_ConstructorFailureContained ==
    PairDocument =>
        \A i \in {1, 2} :
            FailingCase(i) =>
                /\ lastNode.status = "ok"
                /\ lastNode.res.items[Keys[i]] = NoneValue
                /\ config_error.DashboardLoader
                /\ SiblingConstructed(i)

\* C16 as amended: the error flag is set in every case; unless DEBUGGING is
\* set the node gives None, nothing is raised and the node beside it is
\* constructed; with DEBUGGING set the constructor's exception is raised
\* again out of construct_dashboard_node and no node after the failing one
\* is constructed.
C16_ContainedUnlessDebugging ==
    PairDocument =>
        \A i \in {1, 2} :
            FailingCase(i) =>
                /\ config_error.DashboardLoader
                /\ \E n \in Constructs(lastNode.log) :
                      lastNode.log[n].outcome = FailureOf(i)
                /\ IF DEBUGGING
                   THEN /\ lastNode.status = FailureOf(i)
                        /\ \A n \in Constructs(lastNode.log) :
                              lastNode.log[n].outcome # "ok" => n + 1 = Len(lastNode.log)
                   ELSE /\ lastNode.status = "ok"
                        /\ lastNode.res.items[Keys[i]] = NoneValue
                        /\ SiblingConstructed(i)

C16_Witness ==
    /\ PairDocument
    /\ ~DEBUGGING
    /\ SiteNode(1) = DuplicateNode
    /\ BesidePopup(1)
    /\ lastNode.res.items["a"] = NoneValue
    /\ lastNode.res.items["b"].kind = "element"
    /\ config_error.DashboardLoader

\* the typed mapping nodes of a tree, each with its depth: the root is at
\* depth d and every mapping or sequence level below adds one
RECURSIVE TypedSites(_, _)
TypedSites(node, d) ==
    CASE node.kind = "map" ->
            { [depth |-> d, type |-> node.entries[i].val.value] :
                i \in { x \in 1..Len(node.entries) :
                          /\ ~node.entries[x].ext
                          /\ node.entries[x].key = "type"
                          /\ node.entries[x].val.kind = "scalar" } }
            \cup UNION { IF node.entries[i].ext THEN {}
                         ELSE TypedSites(node.entries[i].val, d + 1)
                         : i \in 1..Len(node.entries) }
      [] node.kind = "seq" ->
            UNION { TypedSites(node.items[i], d + 1) : i \in 1..Len(node.items) }
      [] OTHER -> {}

\* the validator calls of a loader in a log: depth, requested type, validator
Validations(log, loader) ==
    { [depth |-> log[i].depth, type |-> log[i].type, validator |-> log[i].validator] :
        i \in { x \in 1..Len(log) : log[x].ev = "validate" /\ log[x].loader = loader } }

\* the type strings that name a class of a registered parser
CustomTypes == {"custom:Gauge", "custom:Dial"}

ValidatedBefore(log, n, configured) ==
    \E m \in 1..(n - 1) :
        /\ log[m].ev = "validate"
        /\ log[m].outcome = "ok"
        /\ log[m].loader = log[n].loader
        /\ log[m].depth = log[n].depth
        /\ log[m].type = log[n].type
        /\ log[m].cls = log[n].cls
        /\ log[m].validator = IF log[n].depth <= 1 THEN configured
                              ELSE "validate_general"

ParserPermissive(log) ==
    \A i \in 1..Len(log) :
        log[i].loader = "TemplateParser" =>
            /\ log[i].depth > 1
            /\ log[i].ev = "validate" => log[i].validator = "validate_general"

ReferenceCase(i) ==
    /\ TypeAt(i) = "template:t1"
    /\ Len(SiteNode(i).entries) = 1 \/ SiteNode(i).entries[2].key = "variables"
    /\ "t1" \in lastNode.registered
    /\ BesidePopup(i)

\* the binding map the reference site i passes
SiteBinds(i) ==
    IF Len(SiteNode(i).entries) = 1 THEN EmptyMap
    ELSE IF SiteNode(i).entries[2].val.entries[1].val.kind = "scalar"
    THEN [x \in {"v"} |-> StrValue]
    ELSE [x \in {"v"} |-> MapValue2]

\* the instantiation at site i fails: a required variable is not passed, a
\* splice variable has the wrong shape, or (DEBUGGING) the constructor of
\* the body raises
InstantiationFails(i) ==
    LET t == templates["t1"]
        b == SiteBinds(i)
    IN  \/ t.required_variables \ DOMAIN b # {}
        \/ \E x \in t.mapping_variables \cap DOMAIN b : b[x].kind # "dict"
        \/ \E x \in t.sequence_variables \cap DOMAIN b : b[x].kind # "list"
        \/ DEBUGGING /\ t.template_node = DuplicateNode

\* the class of the object a body gives: that of its root node, dict for a
\* root without type, NoneType for a root that is not constructed
ProducedClass(body) ==
    LET roots == { s.type : s \in { x \in TypedSites(body, 0) : x.depth = 0 } }
    IN  IF roots = {} THEN "dict"
        ELSE IF body = DuplicateNode THEN "NoneType"
        ELSE IF "Button" \in roots THEN "Button"
        ELSE IF "custom:Gauge" \in roots THEN "Gauge"
        ELSE IF "custom:Dial" \in roots THEN "Dial"
        ELSE "NoneType"

\* the validator calls of the document's loader for the template type
SiteValidations ==
    { i \in 1..Len(lastNode.log) :
        /\ lastNode.log[i].ev = "validate"
        /\ lastNode.log[i].loader = "DashboardLoader"
        /\ lastNode.log[i].type = "template:t1" }

\* no validator is given the Template Definition; at a reference site the
\* validator of the site's depth is given the class of the object produced
DefinitionNotValidated(i) ==
    /\ \A n \in SiteValidations :
          /\ lastNode.log[n].cls # "TemplateElement"
          /\ lastNode.log[n].depth = 1
          /\ lastNode.log[n].validator = lastNode.validator
          /\ lastNode.log[n].cls = ProducedClass(templates["t1"].template_node)
    /\ (~InstantiationFails(i)) => SiteValidations # {}

\* the site fails: the instantiation fails or the validator rejects the
\* class of the object
SiteFails(i) ==
    \/ InstantiationFails(i)
    \/ ~Accepts(lastNode.validator, ProducedClass(templates["t1"].template_node))

-----------------------------------------------------------------------------
(* The core object: _CORE *)

MaxSetups == 3     \* successful CORE() calls of a run

\* element_str.split(":", 1)
split_once(element_str) ==
    IF element_str = "a:b:c" THEN <<"a", "b:c">> ELSE split(element_str)

\* what a call on CORE gives its caller
CoreResult(op, arg, status, parser, res) ==
    [op |-> op, arg |-> arg, status |-> status, parser |-> parser, res |-> res]

\* CoreSetup without the assertion
CoreSetup_again ==
    /\ CORE.clock < MaxSetups
    /\ CORE' = [CORE EXCEPT !.START_TIME = CORE.clock + 1,
                            !.clock = CORE.clock + 1,
                            !.elementParsers = [i \in {} |-> ""],
                            !.stage = "NONE"]
    /\ lastCore' = CoreResult("CORE", "", "ok", "", "")
    /\ UNCHANGED <<templates, lastLoad, variables, lastCall, held, config_error,
                   lastNode, DEBUGGING, tasks, substitutions, lastConfig>>

\* CORE(): _CORE.__init__
CoreSetup ==
    /\ IF CORE.START_TIME # 0
       THEN /\ lastCore' = CoreResult("CORE", "", "AssertionError", "", "")
            /\ UNCHANGED CORE
       ELSE /\ CORE.clock < MaxSetups
            /\ CORE' = [CORE EXCEPT !.START_TIME = CORE.clock + 1,
                                    !.clock = CORE.clock + 1,
                                    !.elementParsers = [i \in {} |-> ""],
                                    !.stage = "NONE"]
            /\ lastCore' = CoreResult("CORE", "", "ok", "", "")
    /\ UNCHANGED <<templates, lastLoad, variables, lastCall, held, config_error,
                   lastNode, DEBUGGING, tasks, substitutions, lastConfig>>

\* CORE._reset(): every slot but _DESIGNER_RUN is deleted, then the stage set
CoreReset ==
    /\ CORE' = [CORE EXCEPT !.START_TIME = 0, !.elementParsers = Unset,
                            !.screen = FALSE, !.integrationLoader = FALSE,
                            !.stage = "RESET"]
    /\ lastCore' = CoreResult("_reset", "", "ok", "", "")
    /\ UNCHANGED <<templates, lastLoad, variables, lastCall, held, config_error,
                   lastNode, DEBUGGING, tasks, substitutions, lastConfig>>

\* AddElementParser binding the identifier to the new parser in any case
AddElementParser_replace(identifier, parser) ==
    /\ CORE.elementParsers # Unset
    /\ CORE' = [CORE EXCEPT !.elementParsers =
                   [i \in DOMAIN @ \cup {identifier} |->
                       IF i = identifier THEN parser ELSE @[i]]]
    /\ lastCore' = CoreResult("add_element_parser", identifier, "ok", parser, "")
    /\ UNCHANGED <<templates, lastLoad, variables, lastCall, held, config_error,
                   lastNode, DEBUGGING, tasks, substitutions, lastConfig>>

\* CORE.add_element_parser(identifier, parser)
AddElementParser(identifier, parser) ==
    /\ IF CORE.elementParsers = Unset
       THEN /\ lastCore' = CoreResult("add_element_parser", identifier,
                                      "AttributeError", parser, "")
            /\ UNCHANGED CORE
       ELSE IF identifier \in DOMAIN CORE.elementParsers
       THEN /\ lastCore' = CoreResult("add_element_parser", identifier,
                                      "already registered", parser, "")
            /\ UNCHANGED CORE
       ELSE /\ CORE' = [CORE EXCEPT !.elementParsers =
                           [i \in DOMAIN @ \cup {identifier} |->
                               IF i = identifier THEN parser ELSE @[i]]]
            /\ lastCore' = CoreResult("add_element_parser", identifier, "ok",
                                      parser, "")
    /\ UNCHANGED <<templates, lastLoad, variables, lastCall, held, config_error,
                   lastNode, DEBUGGING, tasks, substitutions, lastConfig>>

\* _CORE.parse_element: the parser is looked up under elt_type
parse_element(core, element_str) ==
    IF Len(split(element_str)) = 1
    THEN CoreResult("parse_element", element_str, "KeyError", "", "")
    ELSE LET identifier == split_once(element_str)[1]
             elt_type == split_once(element_str)[2]
         IN  IF core.elementParsers = Unset
             THEN CoreResult("parse_element", element_str, "AttributeError", "", "")
             ELSE IF identifier \notin DOMAIN core.elementParsers
             THEN CoreResult("parse_element", element_str, "KeyError", "", "")
             ELSE IF elt_type \notin DOMAIN core.elementParsers
             THEN CoreResult("parse_element", element_str, "KeyError", "", "")
             ELSE LET parser == core.elementParsers[elt_type]
                      found == CallParser([templates |-> templates], parser, elt_type)
                  IN  IF found = "KeyError"
                      THEN CoreResult("parse_element", element_str, "KeyError",
                                      parser, "")
                      ELSE CoreResult("parse_element", element_str, "ok",
                                      parser, elt_type)

\* CORE.parse_element(element_str)
ParseElement(element_str) ==
    /\ lastCore' = parse_element(CORE, element_str)
    /\ UNCHANGED <<templates, lastLoad, variables, lastCall, held, config_error,
                   lastNode, DEBUGGING, CORE, tasks, substitutions, lastConfig>>

\* the identifier and parser pairs integrations and bootstrap register
Registrations ==
    { <<"custom", "custom_parser">>, <<"custom", "integration_parser">>,
      <<"template", "template_parser">>, <<"Dial", "integration_parser">> }

\* the strings parse_element is given
ElementStrings ==
    { "custom:Gauge", "custom:Dial", "Dial:Dial", "unknown:Widget", "Gauge",
      "template:t1", "a:b:c" }

\* the nodes the Object Constructor is given between the calls on CORE
CoreNodes ==
    { TypedNode("custom:Gauge"), TypedNode("custom:Dial"), TypedNode("Button") }

\* set-ups, resets, registrations and look-ups on CORE in any order, with
\* documents constructed in between
NextCore ==
    \/ CoreSetup
    \/ CoreReset
    \/ \E r \in Registrations : AddElementParser(r[1], r[2])
    \/ \E element_str \in ElementStrings : ParseElement(element_str)
    \/ \E node \in CoreNodes : ConstructDocument(node, DefaultValidator)

SpecCore == Init /\ [][NextCore]_vars

-----------------------------------------------------------------------------
(* Templates compiled while identifiers and templates are not registered *)

\* the names templates are compiled under
LazyNames == {"t1", "t2"}

\* the types the compiled bodies name
LazyTypes == {"custom:Gauge", "unknown:Widget", "template:t1"}

\* a template document whose body is one node of the given type
LazyDoc(ty) ==
    [keys |-> {"element"}, element |-> TypedNode(ty), defaults |-> EmptyMap]

\* a template is compiled; each name is compiled once, and only t2 refers
\* to t1, so that no template refers to itself
LoadLazy ==
    \E name \in LazyNames, ty \in LazyTypes :
        /\ name \notin DOMAIN templates
        /\ ty = "template:t1" => name = "t2"
        /\ LoadTemplate(name, LazyDoc(ty))

\* templates are compiled, CORE is reset and set up and parsers are
\* registered in any order, with templates instantiated in between
NextLazy ==
    \/ LoadLazy
    \/ CoreSetup
    \/ CoreReset
    \/ \E r \in Registrations : AddElementParser(r[1], r[2])
    \/ \E name \in DOMAIN templates : Instantiate(name, EmptyMap)

SpecLazy == Init /\ [][NextLazy]_vars

-----------------------------------------------------------------------------
(* Tasks, reload and stop: async_ and bootstrap *)

MaxTasks == 3      \* tasks created in a run

\* the loop of the screen and another loop of the process
Loops == {"main", "other"}

\* a task as create_task returns it
Task(loop, shield) == [loop |-> loop, shield |-> shield, state |-> "pending"]

\* async_.is_reload_shielded_task
is_reload_shielded_task(task) == task.shield

\* asyncio.all_tasks(loop): the tasks of the loop that are not done
all_tasks(loop) ==
    { i \in DOMAIN tasks : tasks[i].loop = loop /\ tasks[i].state = "pending" }

\* shutdown_core cancelling the reload-safe tasks too
shutdown_core_all(core, current, is_reload) ==
    IF ~core.screen THEN tasks
    ELSE [i \in DOMAIN tasks |->
            IF i \in all_tasks("main") /\ i # current
            THEN [tasks[i] EXCEPT !.state = "cancelled"]
            ELSE tasks[i]]

\* bootstrap._shutdown_core: the tasks after it
shutdown_core(core, current, is_reload) ==
    IF ~core.screen THEN tasks
    ELSE [i \in DOMAIN tasks |->
            IF /\ i \in all_tasks("main")
               /\ ~(i = current \/ (is_reload /\ is_reload_shielded_task(tasks[i])))
            THEN [tasks[i] EXCEPT !.state = "cancelled"]
            ELSE tasks[i]]

\* asyncio.create_task(coro) and async_.create_reload_safe_task(coro) on
\* the running loop
CreateTask(loop, shield) ==
    /\ Len(tasks) < MaxTasks
    /\ tasks' = Append(tasks, Task(loop, shield))
    /\ lastCore' = CoreResult("create_task", Len(tasks) + 1, "ok", "", "")
    /\ UNCHANGED <<templates, lastLoad, variables, lastCall, held, config_error,
                   lastNode, DEBUGGING, CORE, substitutions, lastConfig>>

\* task.cancel()
CancelTask(i) ==
    /\ tasks[i].state = "pending"
    /\ tasks' = [tasks EXCEPT ![i].state = "cancelled"]
    /\ lastCore' = CoreResult("cancel", i, "ok", "", "")
    /\ UNCHANGED <<templates, lastLoad, variables, lastCall, held, config_error,
                   lastNode, DEBUGGING, CORE, substitutions, lastConfig>>

\* bootstrap.setup_core(config_file, integration_loader)
SetupCore(loader) ==
    /\ IF CORE.START_TIME # 0
       THEN /\ lastCore' = CoreResult("setup_core", 0, "AssertionError", "", "")
            /\ UNCHANGED CORE
       ELSE /\ CORE.clock < MaxSetups
            /\ CORE' = [START_TIME |-> CORE.clock + 1, clock |-> CORE.clock + 1,
                        stage |-> "NONE", elementParsers |-> BootParsers,
                        screen |-> TRUE, integrationLoader |-> loader]
            /\ lastCore' = CoreResult("setup_core", 0, "ok", "", "")
    /\ UNCHANGED <<templates, lastLoad, variables, lastCall, held, config_error,
                   lastNode, DEBUGGING, tasks, substitutions, lastConfig>>

\* bootstrap.reload_core(core, full_reload), called from the task current
\* (0: from no task of the main loop); a full reload without an integration
\* loader raises before core._reset()
ReloadCore(current, full_reload) ==
    /\ tasks' = shutdown_core(CORE, current, TRUE)
    /\ IF full_reload /\ ~CORE.integrationLoader
       THEN /\ lastCore' = CoreResult("reload_core", current, "AttributeError", "", "")
            /\ UNCHANGED CORE
       ELSE /\ lastCore' = CoreResult("reload_core", current, "ok", "", "")
            /\ CORE' = [CORE EXCEPT !.START_TIME = 0, !.elementParsers = Unset,
                                    !.screen = FALSE, !.integrationLoader = FALSE,
                                    !.stage = "RESET"]
    /\ UNCHANGED <<templates, lastLoad, variables, lastCall, held, config_error,
                   lastNode, DEBUGGING, substitutions, lastConfig>>

\* bootstrap.stop_core(core), called from the task current
StopCore(current) ==
    /\ tasks' = shutdown_core(CORE, current, FALSE)
    /\ lastCore' = CoreResult("stop_core", current, "ok", "", "")
    /\ UNCHANGED <<templates, lastLoad, variables, lastCall, held, config_error,
                   lastNode, DEBUGGING, CORE, substitutions, lastConfig>>

\* the task a call is made from: a running task of the main loop, or none
Callers == {0} \cup all_tasks("main")

NextTasks ==
    \/ \E loop \in Loops, shield \in BOOLEAN : CreateTask(loop, shield)
    \/ \E i \in DOMAIN tasks : CancelTask(i)
    \/ \E loader \in BOOLEAN : SetupCore(loader)
    \/ \E current \in Callers, full_reload \in BOOLEAN : ReloadCore(current, full_reload)
    \/ \E current \in Callers : StopCore(current)

SpecTasks == Init /\ [][NextTasks]_vars

-----------------------------------------------------------------------------
(* The configuration loader: BaseSafeLoader and MainConfigLoader *)

MaxEntries == 3    \* entries of the root mapping of a configuration document

\* the scalars that hold a placeholder, with the name it refers to
Placeholder == ("$a" :> "a") @@ ("$b" :> "b")

\* string.Template(val).safe_substitute(**subs): a placeholder whose name
\* the map has is replaced by the value, any other text is kept
safe_substitute(val, subs) ==
    IF val \in DOMAIN Placeholder /\ Placeholder[val] \in DOMAIN subs
    THEN subs[Placeholder[val]].value
    ELSE val

\* BaseSafeLoader.construct_scalar, subs being the class attribute
\* _substitutions
construct_scalar(val, subs) ==
    IF val \in DOMAIN Placeholder /\ subs # Unset
    THEN safe_substitute(val, subs.items)
    ELSE val

\* BaseSafeLoader.construct_mapping (and construct_object for a scalar): a
\* later entry of the same key replaces the earlier one
RECURSIVE construct_config_value(_, _)
construct_config_value(node, subs) ==
    IF node.kind = "scalar"
    THEN Str(construct_scalar(node.value, subs))
    ELSE LET es == node.entries
             keys == { construct_scalar(es[i].key, subs) : i \in 1..Len(es) }
             last(k) == CHOOSE i \in 1..Len(es) :
                           /\ construct_scalar(es[i].key, subs) = k
                           /\ \A j \in (i + 1)..Len(es) :
                                 construct_scalar(es[j].key, subs) # k
         IN  Dict([k \in keys |-> construct_config_value(es[last(k)].val, subs)])

Range(q) == { q[i] : i \in DOMAIN q }

\* d[key] = val on a dict kept as the sequence of its items in insertion
\* order
Put(d, key, val) ==
    IF \E i \in 1..Len(d) : d[i].key = key
    THEN [i \in 1..Len(d) |-> IF d[i].key = key THEN [key |-> key, val |-> val]
                              ELSE d[i]]
    ELSE Append(d, [key |-> key, val |-> val])

\* inkBoard.configuration.const.DASHBOARD_KEYS
DASHBOARD_KEYS ==
    {"templates", "elements", "layouts", "popups", "main_tabs", "statusbar"}

\* Harvest constructing every value where it stands in the source
RECURSIVE Harvest_in_order(_, _, _)
Harvest_in_order(entries, i, st) ==
    IF i > Len(entries) \/ st.status # "ok" THEN st
    ELSE LET key == construct_scalar(entries[i].key, st.subs)
             val == construct_config_value(entries[i].val, st.subs)
         IN  IF key = "substitutions" /\ val.kind # "dict"
             THEN [st EXCEPT !.status = "TypeError", !.d = Put(@, key, val)]
             ELSE Harvest_in_order(entries, i + 1,
                    [st EXCEPT
                       !.d = Put(@, key, val),
                       !.subs = IF key = "substitutions" THEN val ELSE @,
                       !.trace = Append(@,
                          [ev |-> IF key = "substitutions" THEN "install"
                                  ELSE "construct",
                           key |-> key, val |-> val,
                           subs |-> IF key = "substitutions" THEN val
                                    ELSE st.subs])])

\* MainConfigLoader.construct_mapping on the top node, the first loop: the
\* value of "substitutions" is constructed and installed, every other value
\* node is put aside in parse_later
RECURSIVE Harvest(_, _, _)
Harvest(entries, i, st) ==
    IF i > Len(entries) \/ st.status # "ok" THEN st
    ELSE LET key == construct_scalar(entries[i].key, st.subs)
             val == construct_config_value(entries[i].val, st.subs)
         IN  IF key = "substitutions"
             THEN IF val.kind # "dict"
                  THEN [st EXCEPT !.status = "TypeError",
                                  !.d = Put(@, key, val)]
                  ELSE Harvest(entries, i + 1,
                         [st EXCEPT
                            !.d = Put(@, key, val),
                            !.subs = val,
                            !.trace = Append(@, [ev |-> "install", key |-> key,
                                                 val |-> val, subs |-> val])])
             ELSE Harvest(entries, i + 1,
                    [st EXCEPT
                       !.parse_later = Put(@, key, entries[i].val),
                       !.dashboardNodes =
                           IF key \in DASHBOARD_KEYS THEN @ \cup {key} ELSE @])

\* MainConfigLoader.construct_mapping on the top node, the second loop: the
\* values put aside are constructed in the order of parse_later
RECURSIVE ParseLater(_, _, _)
ParseLater(later, i, st) ==
    IF i > Len(later) \/ st.status # "ok" THEN st
    ELSE LET val == construct_config_value(later[i].val, st.subs)
         IN  ParseLater(later, i + 1,
                [st EXCEPT
                   !.d = Put(@, later[i].key, val),
                   !.trace = Append(@, [ev |-> "construct", key |-> later[i].key,
                                        val |-> val, subs |-> st.subs])])

\* MainConfigLoader.construct_mapping of the root mapping of a document
construct_root_mapping(node, subs) ==
    LET st0 == [status |-> "ok", subs |-> subs, d |-> <<>>,
                parse_later |-> <<>>, dashboardNodes |-> {}, trace |-> <<>>]
        st1 == Harvest(node.entries, 1, st0)
    IN  ParseLater(st1.parse_later, 1, st1)

\* yaml.load(stream, Loader = MainConfigLoader)
LoadConfig(doc) ==
    LET st == construct_root_mapping(doc, substitutions)
    IN  /\ lastConfig' = [status |-> st.status, doc |-> doc, d |-> st.d,
                          trace |-> st.trace, before |-> substitutions,
                          dashboardNodes |-> st.dashboardNodes]
        /\ substitutions' = st.subs
        /\ UNCHANGED <<templates, lastLoad, variables, lastCall, held,
                       config_error, lastNode, DEBUGGING, CORE, lastCore, tasks>>

\* the explored documents: root mappings of up to MaxEntries entries with
\* distinct keys; "elements" is a dashboard key
ConfigKeys == {"substitutions", "name", "elements"}
SubstitutionValues ==
    { MappingNode(<<Entry("a", ScalarNode("1"))>>),
      MappingNode(<<Entry("a", ScalarNode("2")), Entry("b", ScalarNode("$a"))>>),
      ScalarNode("x") }
PlainValues ==
    { ScalarNode("$a"), ScalarNode("lit"),
      MappingNode(<<Entry("k", ScalarNode("$b"))>>) }
ConfigEntries ==
    { Entry("substitutions", n) : n \in SubstitutionValues }
    \cup { Entry(k, n) : k \in ConfigKeys \ {"substitutions"}, n \in PlainValues }
ConfigDocs ==
    { MappingNode(es) : es \in
        { q \in DistinctSeqs(ConfigEntries, MaxEntries) \ {<<>>} :
            \A i, j \in 1..Len(q) : i # j => q[i].key # q[j].key } }

NextConfig == \E doc \in ConfigDocs : LoadConfig(doc)

SpecConfig == Init /\ [][NextConfig]_vars

\* the last document load logged an error, in the document itself or in a
\* template body instantiated from it
LoggedError(rec) == \E i \in 1..Len(rec.log) : rec.log[i].ev = "error"

-----------------------------------------------------------------------------
(* Claims about the compiled Template Definition *)

\* the definition the last successful load registered, in a run that loads
\* one document
Compiled == templates[lastLoad.name]
HasCompiled == lastLoad.status = "ok" /\ lastLoad.name \in DOMAIN templates

\* the causes of a failing compile other than an unused default
OtherLoadErrors ==
    \/ "element" \notin lastLoad.doc.keys
    \/ lastLoad.doc.keys \ {"defaults", "element"} # {}
    \/ MapSites \cap SeqSites # {}
    \/ WrongDefaults # {}

\* C26: every Template Definition a successful compile gives has disjoint
\* mapping-splice and sequence-splice sets, and each optional variable is a
\* scalar variable of the body or a splice variable; a default that names no
\* variable of the template does not make the compile fail and is no
\* optional variable.
C26_DefinitionInvariants ==
    /\ HasCompiled =>
          /\ Compiled.mapping_variables \cap Compiled.sequence_variables = {}
          /\ DOMAIN Compiled.optional_variables
                \subseteq ScalarSites \cup Compiled.mapping_variables
                            \cup Compiled.sequence_variables
          /\ DOMAIN Compiled.optional_variables = UsedDefaults
    /\ lastLoad.status = "TemplateLoadError" => OtherLoadErrors

C26_Witness ==
    /\ HasCompiled
    /\ UnusedVar \in DOMAIN lastLoad.doc.defaults
    /\ ScalarSites # {}
    /\ Compiled.optional_variables = EmptyMap
    /\ lastCall.status = "ok"

\* C28: in every compiled template the required and the optional variables
\* are disjoint and together hold every scalar-substitution variable of the
\* body; so when the required-variable check of a call passes, every
\* scalar-substitution site has a value in the effective variable map and
\* the rewrite does not fail on a missing variable.
C28_ScalarVariablesCovered ==
    HasCompiled =>
        /\ Compiled.required_variables \cap DOMAIN Compiled.optional_variables = {}
        /\ ScalarSites \subseteq
              Compiled.required_variables \cup DOMAIN Compiled.optional_variables
        /\ /\ lastCall.status # "none"
           /\ Compiled.required_variables \subseteq DOMAIN lastCall.passed
           => /\ \A v \in ScalarSites : HasEffective(v)
              /\ lastCall.status # "KeyError"

C28_Witness ==
    /\ HasCompiled
    /\ ScalarSites = {"v", "w"}
    /\ Compiled.required_variables = {"w"}
    /\ DOMAIN Compiled.optional_variables = {"v"}
    /\ lastCall.status = "ok"
    /\ DOMAIN lastCall.passed = {"w"}

-----------------------------------------------------------------------------
(* Claims about the configuration loader *)

\* the entries of the last document, and where its substitutions key stands
ConfigEntriesOf == lastConfig.doc.entries
SubstitutionsAt ==
    { i \in 1..Len(ConfigEntriesOf) : ConfigEntriesOf[i].key = "substitutions" }

\* the events of the last load that construct the value of a top-level key
Constructions ==
    { i \in 1..Len(lastConfig.trace) : lastConfig.trace[i].ev = "construct" }
Installs ==
    { i \in 1..Len(lastConfig.trace) : lastConfig.trace[i].ev = "install" }

\* the source node of a top-level key
SourceOf(key) ==
    ConfigEntriesOf[CHOOSE i \in 1..Len(ConfigEntriesOf) :
                        ConfigEntriesOf[i].key = key].val

\* the keys other than substitutions, in source order
OtherKeys ==
    LET es == SelectSeq(ConfigEntriesOf, LAMBDA e : e.key # "substitutions")
    IN  [i \in 1..Len(es) |-> es[i].key]

\* the keys whose values were constructed, in the order of construction
ConstructedKeys ==
    LET evs == SelectSeq(lastConfig.trace, LAMBDA e : e.ev = "construct")
    IN  [i \in 1..Len(evs) |-> evs[i].key]

\* C21: when the root mapping of a document is constructed, the value of
\* the substitutions key is constructed and installed before the value of
\* any other top-level key is constructed, wherever the key stands in the
\* source (a placeholder in another value gets the value this document
\* gives it), and the other values are constructed in source order.
C21_SubstitutionsFirst ==
    lastConfig.status = "ok" =>
        /\ ConstructedKeys = OtherKeys
        /\ SubstitutionsAt # {} =>
              /\ Installs # {}
              /\ \A i \in Constructions :
                    /\ \E j \in Installs : j < i
                    /\ lastConfig.trace[i].subs = substitutions
                    /\ \A p \in DOMAIN Placeholder :
                          /\ SourceOf(lastConfig.trace[i].key) = ScalarNode(p)
                          /\ Placeholder[p] \in DOMAIN substitutions.items
                          => lastConfig.trace[i].val
                                = substitutions.items[Placeholder[p]]
              /\ DOMAIN substitutions.items
                    = { e.key : e \in Range(SourceOf("substitutions").entries) }

C21_Witness ==
    /\ lastConfig.status = "ok"
    /\ Len(ConfigEntriesOf) = 3
    /\ ConfigEntriesOf[3].key = "substitutions"
    /\ ConfigEntriesOf[1] = Entry("name", ScalarNode("$a"))
    /\ lastConfig.before = Unset
    /\ lastConfig.d[2] = [key |-> "name", val |-> Str("1")]

\* C29: the scalars of a document are interpolated with the substitution
\* map of that document's own root-level substitutions key; a document
\* without the key, loaded after one that had it, gets none of the earlier
\* document's substitutions: its placeholders stay as written.
C29_OwnSubstitutionsOnly ==
    /\ lastConfig.status = "ok"
    /\ SubstitutionsAt = {}
    => \A i \in Constructions :
          /\ lastConfig.trace[i].subs = Unset
          /\ \A p \in DOMAIN Placeholder :
                SourceOf(lastConfig.trace[i].key) = ScalarNode(p)
                => lastConfig.trace[i].val = Str(p)

-----------------------------------------------------------------------------
(* Claims about the core object *)

\* a step that is a call of parse_element
ParseStep == lastCore'.op = "parse_element" /\ lastCore' # lastCore

\* C23: CORE.parse_element("<identifier>:<element_type>") returns what the
\* parser registered under <identifier> gives for <element_type>, for every
\* registered identifier; it raises KeyError when the string has no
\* separator or the identifier is not registered.
C23_ParseElementUsesIdentifier ==
    [][ ParseStep =>
          IF Len(split(lastCore'.arg)) = 1
          THEN lastCore'.status = "KeyError"
          ELSE CORE.elementParsers # Unset =>
             LET identifier == split_once(lastCore'.arg)[1]
                 elt_type == split_once(lastCore'.arg)[2]
             IN  IF identifier \notin DOMAIN CORE.elementParsers
                 THEN lastCore'.status = "KeyError"
                 ELSE CallParser([templates |-> templates],
                                 CORE.elementParsers[identifier], elt_type) = "class"
                      => /\ lastCore'.status = "ok"
                         /\ lastCore'.parser = CORE.elementParsers[identifier]
                         /\ lastCore'.res = elt_type ]_vars

\* a step that is a call of CORE(), of CORE._reset(), of add_element_parser
SetupStep ==
    lastCore'.op = "CORE" /\ (lastCore' # lastCore \/ CORE' # CORE)
ResetStep ==
    lastCore'.op = "_reset" /\ (lastCore' # lastCore \/ CORE' # CORE)
AddStep ==
    lastCore'.op = "add_element_parser" /\ (lastCore' # lastCore \/ CORE' # CORE)

\* C24: CORE can be set up at most once between resets: CORE() on a set-up
\* CORE fails with AssertionError and leaves the set-up as it is (start
\* time and registry included); CORE._reset() leaves CORE not set up, and
\* CORE() on a CORE that is not set up succeeds.
C24_SetupOncePerReset ==
    [][ /\ SetupStep =>
             IF CORE.START_TIME # 0
             THEN lastCore'.status = "AssertionError" /\ CORE' = CORE
             ELSE /\ lastCore'.status = "ok"
                  /\ CORE'.START_TIME # 0
                  /\ CORE'.START_TIME # CORE.clock
        /\ ResetStep => CORE'.START_TIME = 0 ]_vars

C24_Witness ==
    /\ lastCore.op = "CORE"
    /\ lastCore.status = "AssertionError"
    /\ CORE.START_TIME = 2
    /\ CORE.elementParsers # Unset
    /\ DOMAIN CORE.elementParsers # {}

\* C30: the registry keeps the first parser registered for an identifier:
\* add_element_parser with a registered identifier leaves the registry as
\* it is, the Object Constructor never changes the registry, and so from a
\* set-up of CORE to the next reset the parser bound to an identifier stays
\* the same.
C30_FirstParserKept ==
    [][ /\ CORE.elementParsers # Unset /\ CORE'.elementParsers # Unset
             => \A i \in DOMAIN CORE.elementParsers :
                   /\ i \in DOMAIN CORE'.elementParsers
                   /\ CORE'.elementParsers[i] = CORE.elementParsers[i]
        /\ AddStep /\ CORE.elementParsers # Unset
             /\ lastCore'.arg \in DOMAIN CORE.elementParsers
             => CORE' = CORE /\ lastCore'.status = "already registered"
        /\ lastNode' # lastNode => CORE' = CORE ]_vars

C30_Witness ==
    /\ lastCore.op = "add_element_parser"
    /\ lastCore.status = "already registered"
    /\ lastCore.arg = "custom"
    /\ lastCore.parser = "integration_parser"
    /\ CORE.elementParsers["custom"] = "custom_parser"
    /\ lastNode.status = "ok"
    /\ lastNode.node = TypedNode("custom:Gauge")
    /\ lastNode.res.kind = "element"

-----------------------------------------------------------------------------
(* Claims about tasks *)

ReloadStep == lastCore'.op = "reload_core" /\ <<lastCore, CORE, tasks>>' # <<lastCore, CORE, tasks>>
StopStep == lastCore'.op = "stop_core" /\ <<lastCore, tasks>>' # <<lastCore, tasks>>
CancelStep == lastCore'.op = "cancel" /\ tasks' # tasks

\* the tasks a shutdown has to cancel: the running tasks of the main loop of
\* the screen, but for the one the call is made from
OtherMainTasks ==
    IF CORE.screen THEN all_tasks("main") \ {lastCore'.arg} ELSE {}

\* C25: reload_core never cancels a task made with create_reload_safe_task,
\* however many reloads there are, and cancels every other task of the
\* screen's main loop but the current one; stop_core cancels every task of
\* that loop but the current one, reload-safe ones too; task.cancel()
\* cancels a reload-safe task.
C25_ReloadSafeTasks ==
    [][ /\ ReloadStep =>
             /\ \A i \in DOMAIN tasks :
                   is_reload_shielded_task(tasks[i]) => tasks'[i] = tasks[i]
             /\ \A i \in OtherMainTasks :
                   ~is_reload_shielded_task(tasks[i]) => tasks'[i].state = "cancelled"
             /\ lastCore'.arg \in DOMAIN tasks
                   => tasks'[lastCore'.arg] = tasks[lastCore'.arg]
        /\ StopStep =>
             /\ \A i \in OtherMainTasks : tasks'[i].state = "cancelled"
             /\ lastCore'.arg \in DOMAIN tasks
                   => tasks'[lastCore'.arg] = tasks[lastCore'.arg]
        /\ CancelStep => tasks'[lastCore'.arg].state = "cancelled" ]_vars

C25_Witness ==
    /\ lastCore.op = "reload_core"
    /\ CORE.clock = 3
    /\ \E i \in DOMAIN tasks :
          /\ tasks[i] = Task("main", TRUE)
          /\ \E j \in DOMAIN tasks :
                /\ j > i
                /\ tasks[j].loop = "main" /\ ~tasks[j].shield
                /\ tasks[j].state = "cancelled"

-----------------------------------------------------------------------------
(* Claims about the moment type identifiers are resolved *)

\* the type a compiled body names
BodyType(body) == CHOOSE ty \in LazyTypes : TypedNode(ty) = body

\* the class a type string stands for under a parser registry and a
\* template registry, or "nothing"
RECURSIVE ResolvesTo(_, _, _)
ResolvesTo(ty, parsers, registry) ==
    IF ty \in default_elements THEN ty
    ELSE IF parsers = Unset THEN "nothing"
    ELSE IF split(ty)[1] \notin DOMAIN parsers THEN "nothing"
    ELSE IF parsers[split(ty)[1]] = "template_parser"
    THEN IF split(ty)[2] \in DOMAIN registry
         THEN ResolvesTo(BodyType(registry[split(ty)[2]].template_node),
                         parsers, registry)
         ELSE "nothing"
    ELSE IF split(ty)[2] \in ParserElements[parsers[split(ty)[1]]]
    THEN split(ty)[2]
    ELSE "nothing"

\* a step that compiles a template, and a step that instantiates one
CompileStep == lastLoad' # lastLoad
InstantiateStep == lastCall' # lastCall

====
